---- MODULE Spec2Model ----
(***************************************************************************)
(* ContentService.parseTextToLibrary: the line-by-line parser that turns   *)
(* the author's plain text into the Library tree (Category > Book >        *)
(* Section > Part > per-language paragraph lists).                         *)
(*                                                                         *)
(* Strings are sequences of one-character strings, so that trim,           *)
(* startsWith, replace, toUpperCase, split and slugify are computed the    *)
(* way the JavaScript computes them.                                       *)
(*                                                                         *)
(* The repository holds three revisions of the parser:                     *)
(*   "stable"  src/unnamed/part_002:414-493  (slug ids, guarded            *)
(*             startNewPart)                                               *)
(*   "counted" src/unnamed/part_002:554-644  (slug ids, partCount,         *)
(*             unguarded createNewPart, early return)                      *)
(*   "random"  src/unnamed/part_003:61-131   (Math.random ids)             *)
(* The variable `variant` selects the revision a behaviour runs.           *)
(***************************************************************************)
EXTENDS Integers, Sequences, FiniteSets, TLC

----------------------------------------------------------------------------
(* Bounds of the model                                                     *)

\* number of lines the input draws freely after its preamble
MaxFree == 3
\* the same, for inputs parsed twice by the revision with random ids
MaxFreeRandom == 1
\* number of values Math.random().toString(36).substr(2, 9) is drawn from
MaxRand == 2
\* length of the longest title handed to slugify on its own
MaxTitle == 4
\* longest run of lines after the opening lines of an input about tags
MaxTagLines == 3

----------------------------------------------------------------------------
(* Characters and strings                                                  *)

\* String.prototype.trim strips these (the line terminators and blanks used)
WS == {" ", "\t", "\r", "\n"}

UpperChars == {"A", "B", "C", "E", "K", "N", "O", "P", "R", "S", "T"}
LowerChars == {"a", "b", "c", "e", "k", "n", "o", "p", "r", "s", "t"}
DigitChars == {"0", "1", "2", "3", "4", "5", "6", "7", "8", "9"}

\* the class \w of the regular expressions in slugify
WordChars == UpperChars \cup LowerChars \cup DigitChars \cup {"_"}

toLowerCaseChar(c) ==
  CASE c = "A" -> "a" [] c = "B" -> "b" [] c = "C" -> "c" [] c = "E" -> "e"
    [] c = "K" -> "k" [] c = "N" -> "n" [] c = "O" -> "o" [] c = "P" -> "p" [] c = "R" -> "r"
    [] c = "S" -> "s" [] c = "T" -> "t" [] c = "É" -> "é" [] OTHER -> c

toUpperCaseChar(c) ==
  CASE c = "a" -> "A" [] c = "b" -> "B" [] c = "c" -> "C" [] c = "e" -> "E"
    [] c = "k" -> "K" [] c = "n" -> "N" [] c = "o" -> "O" [] c = "p" -> "P" [] c = "r" -> "R"
    [] c = "s" -> "S" [] c = "t" -> "T" [] c = "é" -> "É" [] OTHER -> c

toLowerCase(s) == [i \in 1..Len(s) |-> toLowerCaseChar(s[i])]
toUpperCase(s) == [i \in 1..Len(s) |-> toUpperCaseChar(s[i])]

\* String.prototype.trim
trim(s) ==
  LET keep == {i \in 1..Len(s) : s[i] \notin WS}
  IN  IF keep = {} THEN <<>>
      ELSE SubSeq(s, CHOOSE i \in keep : \A j \in keep : i <= j,
                     CHOOSE i \in keep : \A j \in keep : j <= i)

\* String.prototype.startsWith
startsWith(s, p) == Len(s) >= Len(p) /\ SubSeq(s, 1, Len(p)) = p

\* s.replace(p, ''): a string pattern removes the first occurrence only
replaceFirst(s, p) ==
  LET at == {i \in 1..(Len(s) - Len(p) + 1) : SubSeq(s, i, i + Len(p) - 1) = p}
  IN  IF at = {} THEN s
      ELSE LET i == CHOOSE k \in at : \A j \in at : k <= j
           IN  SubSeq(s, 1, i - 1) \o SubSeq(s, i + Len(p), Len(s))

\* text.split('\n'): one more piece than there are line feeds
split(s) ==
  LET feeds == {i \in 1..Len(s) : s[i] = "\n"}
      feed(k) == IF k = 0 THEN 0
                 ELSE IF k > Cardinality(feeds) THEN Len(s) + 1
                 ELSE CHOOSE i \in feeds : Cardinality({j \in feeds : j <= i}) = k
  IN  [k \in 1..(Cardinality(feeds) + 1) |-> SubSeq(s, feed(k - 1) + 1, feed(k) - 1)]

\* the text whose physical lines are ls (the inverse of split)
RECURSIVE joinLines(_)
joinLines(ls) ==
  IF Len(ls) = 0 THEN <<>>
  ELSE IF Len(ls) = 1 THEN ls[1]
  ELSE ls[1] \o <<"\n">> \o joinLines(Tail(ls))

\* .replace(/[^\w\s-]/g, '')
keptBySlug(c) == c \in WordChars \cup WS \cup {"-"}

stripNonWord(s) == SelectSeq(s, keptBySlug)

\* .replace(/[\s_-]+/g, '-'): the first character of a run becomes the
\* hyphen, the rest of the run goes
SepChars == WS \cup {"_", "-"}

notDropped(c) == c # ""

collapseSeps(s) ==
  SelectSeq([i \in 1..Len(s) |->
               IF s[i] \notin SepChars THEN s[i]
               ELSE IF i > 1 /\ s[i - 1] \in SepChars THEN "" ELSE "-"],
            notDropped)

\* the same replace without the g flag: only the first match goes
trimHyphensFirstMatch(s) ==
  LET keep == {i \in 1..Len(s) : s[i] # "-"}
  IN  IF keep = {} THEN <<>>
      ELSE IF s[1] = "-"
        THEN SubSeq(s, CHOOSE i \in keep : \A j \in keep : i <= j, Len(s))
      ELSE SubSeq(s, 1, CHOOSE i \in keep : \A j \in keep : j <= i)

\* .replace(/^-+|-+$/g, '')
trimHyphens(s) ==
  LET keep == {i \in 1..Len(s) : s[i] # "-"}
  IN  IF keep = {} THEN <<>>
      ELSE SubSeq(s, CHOOSE i \in keep : \A j \in keep : i <= j,
                     CHOOSE i \in keep : \A j \in keep : j <= i)

slugify(t) == trimHyphens(collapseSeps(stripNonWord(trim(toLowerCase(t)))))

----------------------------------------------------------------------------
(* String literals of the parser                                           *)

H1 == <<"#">>
H2 == <<"#", "#">>
H3 == <<"#", "#", "#">>
Dashes == <<"-", "-", "-">>
TagEN == <<"[", "E", "N", "]">>
TagCOP == <<"[", "C", "O", "P", "]">>
TagAR == <<"[", "A", "R", "]">>
TagTRANEN == <<"[", "T", "R", "A", "N", "-", "E", "N", "]">>
TagTRANAR == <<"[", "T", "R", "A", "N", "-", "A", "R", "]">>

\* enum Language
Languages == {"EN", "COP", "AR", "TRAN-EN", "TRAN-AR"}
NoLang == "none"

\* decimal rendering of a number inside a template literal
RECURSIVE numStr(_)
numStr(n) ==
  LET d == <<"0", "1", "2", "3", "4", "5", "6", "7", "8", "9">>
  IN  IF n < 10 THEN <<d[n + 1]>> ELSE numStr(n \div 10) \o <<d[(n % 10) + 1]>>

\* `x || fallback` on strings: the empty string is falsy
orElse(s, fallback) == IF s = <<>> THEN fallback ELSE s

----------------------------------------------------------------------------
(* Inputs                                                                  *)

\* the physical lines inputs are made of
LineSet ==
  { <<>>,
    <<" ">>,
    <<"#", " ", "A">>,
    <<"#", "b">>,
    <<"#", "#", " ", "B">>,
    <<"#", "#", "#", " ", "S">>,
    <<"-", "-", "-">>,
    <<"[", "E", "N", "]">>,
    <<"[", "a", "r", "]">>,
    <<"a">>,
    <<" ", "b", " ">> }

\* opening lines of an input: nothing, a full heading chain, and a heading
\* chain with one English paragraph
Preambles ==
  { <<>>,
    << <<"#", " ", "A">>, <<"#", "#", " ", "B">>, <<"#", "#", "#", " ", "S">> >>,
    << <<"#", " ", "A">>, <<"#", "#", " ", "B">>, <<"#", "#", "#", " ", "S">>,
       <<"[", "E", "N", "]">>, <<"a">> >> }

FreeLines == UNION {[1..n -> LineSet] : n \in 0..MaxFree}

Texts == {joinLines(p \o f) : p \in Preambles, f \in FreeLines}

RandomTexts ==
  {joinLines(p \o f) : p \in Preambles,
                       f \in UNION {[1..n -> LineSet] : n \in 0..MaxFreeRandom}}

----------------------------------------------------------------------------
(* State                                                                   *)

VARIABLES
  variant,         \* which revision of parseTextToLibrary runs
  text,            \* the argument of parseTextToLibrary
  lines,           \* text.split('\n')
  idx,             \* index of the line forEach visits next
  pc,              \* "start", "lines", "done" or "threw"
  library,         \* the array the parser returns: Category records
  books,           \* every Book object allocated, by reference
  sections,        \* every Section object allocated, by reference
  parts,           \* every Part object allocated, by reference
  currentCat,      \* index into library, 0 for null
  currentBook,     \* reference into books, 0 for null
  currentSection,  \* reference into sections, 0 for null
  currentPart,     \* reference into parts, 0 for null
  currentLang,     \* a Language or NoLang
  partCount,       \* the counter of the "counted" revision
  callNo,          \* 1 for the first call on text, 2 for the second
  firstResult,     \* what the first call returned
  slugText,        \* the argument of slugify
  slugs,           \* what slugify returned, in call order
  store,           \* localStorage: the three keys of ContentService
  appLibrary,      \* App: the `library` state, what is displayed
  loading,         \* App: the `loading` state
  isSyncing,       \* App: the `isSyncing` state
  isEditorOpen,    \* App: the `isEditorOpen` state
  editorContent,   \* App: the `editorContent` state
  googleDocId,     \* App: the `googleDocId` state
  inFlight,        \* the fetch syncFromGoogleDoc awaits, or NoFetch
  returned,        \* what the last call of a ContentService method gave back
  settings,        \* App: the `settings` state, a prop of Reader
  readerVariant,   \* which revision of Reader renders
  selectedBookId,  \* App: the `selectedBookId` state
  readerBook,      \* Reader: the `book` prop, or NoBook
  targetSectionId, \* Reader: the `targetSectionId` prop, or NoTarget
  currentPartIndex, \* Reader: the `currentPartIndex` state
  lastBookIdRef,   \* Reader: lastBookIdRef.current, or NoBook
  shown            \* Reader: what the last render put on screen

parserVars == <<variant, text, lines, idx, pc, library, books, sections, parts,
                currentCat, currentBook, currentSection, currentPart,
                currentLang, partCount, callNo, firstResult>>

\* a call of slugify on its own: its argument and what it returned
slugVars == <<slugText, slugs>>

\* localStorage and the state of App
appVars == <<store, appLibrary, loading, isSyncing, isEditorOpen, editorContent,
             googleDocId, inFlight, returned>>

\* props and state of Reader
readerVars == <<settings, readerVariant, selectedBookId, readerBook, targetSectionId, currentPartIndex,
                lastBookIdRef, shown>>

vars == <<parserVars, slugVars, appVars, readerVars>>

cursor == <<currentCat, currentBook, currentSection, currentPart, currentLang>>

\* a parser that seeds the result with a default Category
NewLibrarySeeded ==
  <<[id |-> <<"c", "a", "t", "-">>, title |-> <<>>, children |-> <<>>]>>

\* const library: LibraryItem[] = []
NewLibrary == <<>>

\* localStorage.getItem gives null for a key that was never set
Absent == [kind |-> "absent"]

\* localStorage with none of the three keys
EmptyStore == [library |-> Absent, rawText |-> Absent, docId |-> Absent]

\* no fetch is awaited
NoFetch == [from |-> "none"]

\* no ContentService method has been called yet
NoReturn == [of |-> "none"]

\* `book` is null
NoBook == [none |-> TRUE]

\* `targetSectionId` is null
NoTarget == [none |-> TRUE]

\* App as its useState calls leave it, before the first effect runs
AppConstructed ==
  /\ appLibrary = <<>>
  /\ loading = TRUE
  /\ isSyncing = FALSE
  /\ isEditorOpen = FALSE
  /\ editorContent = <<>>
  /\ googleDocId = <<>>
  /\ inFlight = NoFetch
  /\ returned = NoReturn

\* the initial value of App's `settings` state
InitialSettings ==
  [fontSize |-> 24,
   languages |-> <<"EN", "COP", "AR", "TRAN-EN", "TRAN-AR">>,
   presentationMode |-> TRUE,
   isFullscreen |-> FALSE]

\* Reader before its first render, and the App state it depends on
ReaderUnmounted ==
  /\ settings = InitialSettings
  /\ selectedBookId = <<>>
  /\ readerBook = NoBook
  /\ targetSectionId = NoTarget
  /\ currentPartIndex = 0
  /\ lastBookIdRef = NoBook
  /\ shown = [page |-> "none"]

\* the revision of Reader with safeIndex, before its first render
ReaderConstructed ==
  /\ readerVariant = "clamped"
  /\ ReaderUnmounted

\* the state of a call before its first line
FreshCall ==
  /\ lines = <<>>
  /\ idx = 0
  /\ pc = "start"
  /\ library = NewLibrary
  /\ books = <<>>
  /\ sections = <<>>
  /\ parts = <<>>
  /\ currentCat = 0
  /\ currentBook = 0
  /\ currentSection = 0
  /\ currentPart = 0
  /\ currentLang = NoLang
  /\ partCount = 0

InitFor(v, inputs) ==
  /\ variant = v
  /\ text \in inputs
  /\ callNo = 1
  /\ firstResult = <<>>
  /\ FreshCall
  /\ slugText = <<>>
  /\ slugs = <<>>
  /\ store = EmptyStore
  /\ AppConstructed
  /\ ReaderConstructed

Init == InitFor("stable", Texts)

----------------------------------------------------------------------------
(* The value the caller sees                                               *)

PartValue(p) == parts[p]

SectionValue(s) ==
  [id |-> sections[s].id, title |-> sections[s].title,
   parts |-> [i \in 1..Len(sections[s].parts) |-> PartValue(sections[s].parts[i])]]

BookValue(b) ==
  [id |-> books[b].id, title |-> books[b].title, type |-> "book",
   sections |-> [i \in 1..Len(books[b].sections) |-> SectionValue(books[b].sections[i])]]

CategoryValue(c) ==
  [id |-> library[c].id, title |-> library[c].title, type |-> "category",
   children |-> [i \in 1..Len(library[c].children) |-> BookValue(library[c].children[i])]]

\* `return library`, with every reference followed
Result == [c \in 1..Len(library) |-> CategoryValue(c)]

----------------------------------------------------------------------------
(* The line loop                                                           *)

\* const trimmed = line.trim()
trimmed == trim(lines[idx])

\* the tags compared without toUpperCase
tagLanguageCaseSensitive(t) ==
  IF t = TagEN THEN "EN"
  ELSE IF t = TagCOP THEN "COP"
  ELSE IF t = TagAR THEN "AR"
  ELSE IF t = TagTRANEN THEN "TRAN-EN"
  ELSE IF t = TagTRANAR THEN "TRAN-AR"
  ELSE NoLang

\* the tags recognised at the start of a line
tagLanguagePrefix(t) ==
  LET u == toUpperCase(t)
  IN  IF startsWith(u, TagEN) THEN "EN"
      ELSE IF startsWith(u, TagCOP) THEN "COP"
      ELSE IF startsWith(u, TagAR) THEN "AR"
      ELSE IF startsWith(u, TagTRANEN) THEN "TRAN-EN"
      ELSE IF startsWith(u, TagTRANAR) THEN "TRAN-AR"
      ELSE NoLang

\* the language a tag line selects, NoLang if the line is not a tag
tagLanguage(t) ==
  LET u == toUpperCase(t)
  IN  IF u = TagEN THEN "EN"
      ELSE IF u = TagCOP THEN "COP"
      ELSE IF u = TagAR THEN "AR"
      ELSE IF u = TagTRANEN THEN "TRAN-EN"
      ELSE IF u = TagTRANAR THEN "TRAN-AR"
      ELSE NoLang

\* the chain with the markers tested shortest first
lineKindShortestFirst(v, t, lang, part) ==
  IF v # "stable" /\ t = <<>> /\ lang = NoLang THEN "skip"
  ELSE IF startsWith(t, H1) THEN "category"
  ELSE IF startsWith(t, H2) THEN "book"
  ELSE IF startsWith(t, H3) THEN "section"
  ELSE IF t = Dashes THEN "delimiter"
  ELSE IF tagLanguage(t) # NoLang THEN "language"
  ELSE IF lang # NoLang /\ part # 0 THEN "content"
  ELSE "skip"

\* the chain with the content rule tested before the delimiter and the tags
lineKindContentFirst(v, t, lang, part) ==
  IF v # "stable" /\ t = <<>> /\ lang = NoLang THEN "skip"
  ELSE IF startsWith(t, H3) THEN "section"
  ELSE IF startsWith(t, H2) THEN "book"
  ELSE IF startsWith(t, H1) THEN "category"
  ELSE IF lang # NoLang /\ part # 0 THEN "content"
  ELSE IF t = Dashes THEN "delimiter"
  ELSE IF tagLanguage(t) # NoLang THEN "language"
  ELSE "skip"

\* the branch of the if / else-if chain a line takes
lineKind(v, t, lang, part) ==
  IF v # "stable" /\ t = <<>> /\ lang = NoLang THEN "skip"
  ELSE IF startsWith(t, H3) THEN "section"
  ELSE IF startsWith(t, H2) THEN "book"
  ELSE IF startsWith(t, H1) THEN "category"
  ELSE IF t = Dashes THEN "delimiter"
  ELSE IF tagLanguage(t) # NoLang THEN "language"
  ELSE IF lang # NoLang /\ part # 0 THEN "content"
  ELSE "skip"

kind == lineKind(variant, trimmed, currentLang, currentPart)

AtLine == pc = "lines" /\ idx <= Len(lines)

\* Math.random().toString(36).substr(2, 9)
RandomIds == {numStr(r) : r \in 1..MaxRand}

\* id of a heading node: `${scope}-${slugify(parentTitle || fallback)}-${slugify(title)}`
headingId(scope, parentTitle, fallback, title) ==
  scope \o <<"-">> \o slugify(orElse(parentTitle, fallback)) \o <<"-">> \o slugify(title)

sectionId(v, book, title, rnd) ==
  IF v = "random" THEN rnd
  ELSE headingId(<<"s", "e", "c">>, IF book = 0 THEN <<>> ELSE books[book].title,
                 IF v = "stable" THEN <<"c", "a", "t">> ELSE <<>>, title)

bookId(v, cat, title, rnd) ==
  IF v = "random" THEN rnd
  ELSE headingId(<<"b", "o", "o", "k">>, IF cat = 0 THEN <<>> ELSE library[cat].title,
                 IF v = "stable" THEN <<"r", "o", "o", "t">> ELSE <<>>, title)

categoryId(v, title, rnd) ==
  IF v = "random" THEN rnd
  ELSE <<"c", "a", "t", "-">> \o slugify(title)

\* Part numbers counted from 0
partIdFromZero(v, secs, sec, count, rnd) ==
  IF v = "random" THEN rnd
  ELSE IF v = "stable"
       THEN <<"p", "a", "r", "t", "-">> \o secs[sec].id \o <<"-">>
              \o numStr(Len(secs[sec].parts))
       ELSE <<"p", "a", "r", "t", "-">>
              \o (IF sec = 0 THEN <<"r", "o", "o", "t">>
                  ELSE orElse(secs[sec].id, <<"r", "o", "o", "t">>))
              \o <<"-">> \o numStr(count - 1)

partId(v, secs, sec, count, rnd) ==
  IF v = "random" THEN rnd
  ELSE IF v = "stable"
       THEN <<"p", "a", "r", "t", "-">> \o secs[sec].id \o <<"-">>
              \o numStr(Len(secs[sec].parts) + 1)
       ELSE <<"p", "a", "r", "t", "-">>
              \o (IF sec = 0 THEN <<"r", "o", "o", "t">>
                  ELSE orElse(secs[sec].id, <<"r", "o", "o", "t">>))
              \o <<"-">> \o numStr(count)

\* startNewPart without its `if (!currentSection) return`: reading
\* currentSection.id of null throws
startNewPartUnguarded(v, secs, sec, count, rnd) ==
  IF v = "stable" /\ sec = 0
  THEN [threw |-> TRUE, sections |-> secs, parts |-> parts,
        currentPart |-> currentPart, partCount |-> count]
  ELSE LET n == IF v = "counted" THEN count + 1 ELSE count
           p == [id |-> partId(v, secs, sec, n, rnd), type |-> "prayer",
                 content |-> <<>>]
       IN  [threw |-> FALSE,
            sections |-> IF sec # 0
                         THEN [secs EXCEPT ![sec].parts = Append(@, Len(parts) + 1)]
                         ELSE secs,
            parts |-> Append(parts, p),
            currentPart |-> Len(parts) + 1,
            partCount |-> n]

\* startNewPart assigning the part list instead of pushing to it
startNewPartAssign(v, secs, sec, count, rnd) ==
  IF v = "stable" /\ sec = 0
  THEN [threw |-> FALSE, sections |-> secs, parts |-> parts,
        currentPart |-> currentPart, partCount |-> count]
  ELSE LET n == IF v = "counted" THEN count + 1 ELSE count
           p == [id |-> partId(v, secs, sec, n, rnd), type |-> "prayer",
                 content |-> <<>>]
       IN  [threw |-> FALSE,
            sections |-> IF sec # 0
                         THEN [secs EXCEPT ![sec].parts = <<Len(parts) + 1>>]
                         ELSE secs,
            parts |-> Append(parts, p),
            currentPart |-> Len(parts) + 1,
            partCount |-> n]

\* startNewPart testing the Section that was current before the heading
startNewPartStale(v, secs, sec, count, rnd) ==
  IF v = "stable" /\ currentSection = 0
  THEN [threw |-> FALSE, sections |-> secs, parts |-> parts,
        currentPart |-> currentPart, partCount |-> count]
  ELSE LET n == IF v = "counted" THEN count + 1 ELSE count
           p == [id |-> partId(v, secs, sec, n, rnd), type |-> "prayer",
                 content |-> <<>>]
       IN  [threw |-> FALSE,
            sections |-> IF sec # 0
                         THEN [secs EXCEPT ![sec].parts = Append(@, Len(parts) + 1)]
                         ELSE secs,
            parts |-> Append(parts, p),
            currentPart |-> Len(parts) + 1,
            partCount |-> n]

\* startNewPart (stable) / createNewPart (counted, random), run on the
\* section heap secs with current Section sec; count is partCount before the
\* call.  threw: the call dereferenced null.
startNewPart(v, secs, sec, count, rnd) ==
  IF v = "stable" /\ sec = 0
  THEN [threw |-> FALSE, sections |-> secs, parts |-> parts,
        currentPart |-> currentPart, partCount |-> count]
  ELSE LET n == IF v = "counted" THEN count + 1 ELSE count
           p == [id |-> partId(v, secs, sec, n, rnd), type |-> "prayer",
                 content |-> <<>>]
       IN  [threw |-> FALSE,
            sections |-> IF sec # 0
                         THEN [secs EXCEPT ![sec].parts = Append(@, Len(parts) + 1)]
                         ELSE secs,
            parts |-> Append(parts, p),
            currentPart |-> Len(parts) + 1,
            partCount |-> n]

\* a Book with no current Category given a Category of its own
attachBookImplicit(lib, cat, b) ==
  IF cat # 0 THEN [lib EXCEPT ![cat].children = Append(@, b)]
  ELSE Append(lib, [id |-> <<"c", "a", "t", "-">>, title |-> <<>>, children |-> <<b>>])

\* currentCat.children.push(currentBook), when there is a current Category
attachBook(lib, cat, b) ==
  IF cat # 0 THEN [lib EXCEPT ![cat].children = Append(@, b)] ELSE lib

\* a Section with no current Book pushed to the Book allocated last
attachSectionToLast(bks, book, s) ==
  IF book # 0 THEN [bks EXCEPT ![book].sections = Append(@, s)]
  ELSE IF bks # <<>> THEN [bks EXCEPT ![Len(bks)].sections = Append(@, s)]
  ELSE bks

\* unshift instead of push
attachSectionFront(bks, book, s) ==
  IF book # 0 THEN [bks EXCEPT ![book].sections = <<s>> \o @] ELSE bks

\* currentBook.sections.push(currentSection), when there is a current Book
attachSection(bks, book, s) ==
  IF book # 0 THEN [bks EXCEPT ![book].sections = Append(@, s)] ELSE bks

\* the title without its final trim()
headingTitleUntrimmed(t, marker) == replaceFirst(t, marker)

\* the title of a heading line: trimmed.replace(marker, '').trim()
headingTitle(t, marker) == trim(replaceFirst(t, marker))

\* unshift instead of push
pushParagraphFront(content, lang, t) ==
  LET had == IF lang \in DOMAIN content THEN content[lang] ELSE <<>>
      now == IF t # <<>> THEN <<t>> \o had ELSE had
  IN  [l \in (DOMAIN content) \cup {lang} |-> IF l = lang THEN now ELSE content[l]]

\* push without the `if (trimmed)` test
pushParagraphAlways(content, lang, t) ==
  LET had == IF lang \in DOMAIN content THEN content[lang] ELSE <<>>
  IN  [l \in (DOMAIN content) \cup {lang} |->
         IF l = lang THEN Append(had, t) ELSE content[l]]

\* currentPart.content[currentLang], with the key created when absent and
\* the line pushed when it is not empty
pushParagraph(content, lang, t) ==
  LET had == IF lang \in DOMAIN content THEN content[lang] ELSE <<>>
      now == IF t # <<>> THEN Append(had, t) ELSE had
  IN  [l \in (DOMAIN content) \cup {lang} |-> IF l = lang THEN now ELSE content[l]]

ParseStart ==
  /\ pc = "start"
  /\ IF variant # "stable" /\ trim(text) = <<>>
     THEN /\ pc' = "done"
          /\ UNCHANGED <<lines, idx>>
     ELSE /\ lines' = split(text)
          /\ idx' = 1
          /\ pc' = "lines"
  /\ UNCHANGED <<slugVars, appVars, readerVars>>
  /\ UNCHANGED <<variant, text, library, books, sections, parts, cursor,
                 partCount, callNo, firstResult>>

SectionLine ==
  /\ AtLine
  /\ kind = "section"
  /\ \E r1, r2 \in (IF variant = "random" THEN RandomIds ELSE {<<>>}) :
       LET title == headingTitle(trimmed, H3)
           s == Len(sections) + 1
           secs1 == Append(sections,
                           [id |-> sectionId(variant, currentBook, title, r1),
                            title |-> title, parts |-> <<>>])
           np == startNewPart(variant, secs1, s, 0, r2)
       IN  /\ books' = attachSection(books, currentBook, s)
           /\ sections' = np.sections
           /\ parts' = np.parts
           /\ currentSection' = s
           /\ currentPart' = np.currentPart
           /\ partCount' = np.partCount
           /\ currentLang' = NoLang
           /\ pc' = IF np.threw THEN "threw" ELSE pc
  /\ idx' = idx + 1
  /\ UNCHANGED <<slugVars, appVars, readerVars>>
  /\ UNCHANGED <<variant, text, lines, library, currentCat, currentBook,
                 callNo, firstResult>>

\* a Book heading that leaves the Section and Part cursors alone
BookLineKeepsPart ==
  /\ AtLine
  /\ kind = "book"
  /\ \E r \in (IF variant = "random" THEN RandomIds ELSE {<<>>}) :
       LET title == headingTitle(trimmed, H2)
           b == Len(books) + 1
       IN  /\ books' = Append(books, [id |-> bookId(variant, currentCat, title, r),
                                      title |-> title, sections |-> <<>>])
           /\ library' = attachBook(library, currentCat, b)
           /\ currentBook' = b
  /\ idx' = idx + 1
  /\ UNCHANGED <<slugVars, appVars, readerVars>>
  /\ UNCHANGED <<variant, text, lines, pc, sections, parts, currentCat,
                 currentSection, currentPart, currentLang, partCount, callNo,
                 firstResult>>

BookLine ==
  /\ AtLine
  /\ kind = "book"
  /\ \E r \in (IF variant = "random" THEN RandomIds ELSE {<<>>}) :
       LET title == headingTitle(trimmed, H2)
           b == Len(books) + 1
       IN  /\ books' = Append(books, [id |-> bookId(variant, currentCat, title, r),
                                      title |-> title, sections |-> <<>>])
           /\ library' = attachBook(library, currentCat, b)
           /\ currentBook' = b
  /\ currentSection' = 0
  /\ currentPart' = 0
  /\ idx' = idx + 1
  /\ UNCHANGED <<slugVars, appVars, readerVars>>
  /\ UNCHANGED <<variant, text, lines, pc, sections, parts, currentCat,
                 currentLang, partCount, callNo, firstResult>>

CategoryLine ==
  /\ AtLine
  /\ kind = "category"
  /\ \E r \in (IF variant = "random" THEN RandomIds ELSE {<<>>}) :
       LET title == headingTitle(trimmed, H1)
       IN  library' = Append(library, [id |-> categoryId(variant, title, r),
                                       title |-> title, children |-> <<>>])
  /\ currentCat' = Len(library) + 1
  /\ currentBook' = 0
  /\ currentSection' = 0
  /\ currentPart' = 0
  /\ idx' = idx + 1
  /\ UNCHANGED <<slugVars, appVars, readerVars>>
  /\ UNCHANGED <<variant, text, lines, pc, books, sections, parts,
                 currentLang, partCount, callNo, firstResult>>

\* a delimiter that leaves the active Language as it is
DelimiterLineKeepsLanguage ==
  /\ AtLine
  /\ kind = "delimiter"
  /\ \E r \in (IF variant = "random" THEN RandomIds ELSE {<<>>}) :
       LET np == startNewPart(variant, sections, currentSection, partCount, r)
       IN  /\ sections' = np.sections
           /\ parts' = np.parts
           /\ currentPart' = np.currentPart
           /\ partCount' = np.partCount
           /\ pc' = IF np.threw THEN "threw" ELSE pc
  /\ idx' = idx + 1
  /\ UNCHANGED <<slugVars, appVars, readerVars>>
  /\ UNCHANGED <<variant, text, lines, library, books, currentCat,
                 currentBook, currentSection, currentLang, callNo, firstResult>>

DelimiterLine ==
  /\ AtLine
  /\ kind = "delimiter"
  /\ \E r \in (IF variant = "random" THEN RandomIds ELSE {<<>>}) :
       LET np == startNewPart(variant, sections, currentSection, partCount, r)
       IN  /\ sections' = np.sections
           /\ parts' = np.parts
           /\ currentPart' = np.currentPart
           /\ partCount' = np.partCount
           /\ pc' = IF np.threw THEN "threw" ELSE pc
  /\ currentLang' = NoLang
  /\ idx' = idx + 1
  /\ UNCHANGED <<slugVars, appVars, readerVars>>
  /\ UNCHANGED <<variant, text, lines, library, books, currentCat,
                 currentBook, currentSection, callNo, firstResult>>

\* a tag that starts the list of its Language afresh
LanguageLineReset ==
  /\ AtLine
  /\ kind = "language"
  /\ currentLang' = tagLanguage(trimmed)
  /\ parts' = IF currentPart = 0 THEN parts
              ELSE [parts EXCEPT ![currentPart].content =
                      [l \in (DOMAIN @) \cup {tagLanguage(trimmed)} |->
                         IF l = tagLanguage(trimmed) THEN <<>> ELSE @[l]]]
  /\ idx' = idx + 1
  /\ UNCHANGED <<slugVars, appVars, readerVars>>
  /\ UNCHANGED <<variant, text, lines, pc, library, books, sections,
                 currentCat, currentBook, currentSection, currentPart,
                 partCount, callNo, firstResult>>

LanguageLine ==
  /\ AtLine
  /\ kind = "language"
  /\ currentLang' = tagLanguage(trimmed)
  /\ idx' = idx + 1
  /\ UNCHANGED <<slugVars, appVars, readerVars>>
  /\ UNCHANGED <<variant, text, lines, pc, library, books, sections, parts,
                 currentCat, currentBook, currentSection, currentPart,
                 partCount, callNo, firstResult>>

ContentLine ==
  /\ AtLine
  /\ kind = "content"
  /\ parts' = [parts EXCEPT ![currentPart].content =
                 pushParagraph(@, currentLang, trimmed)]
  /\ idx' = idx + 1
  /\ UNCHANGED <<slugVars, appVars, readerVars>>
  /\ UNCHANGED <<variant, text, lines, pc, library, books, sections, cursor,
                 partCount, callNo, firstResult>>

\* a line no branch acts on
SkipLine ==
  /\ AtLine
  /\ kind = "skip"
  /\ idx' = idx + 1
  /\ UNCHANGED <<slugVars, appVars, readerVars>>
  /\ UNCHANGED <<variant, text, lines, pc, library, books, sections, parts,
                 cursor, partCount, callNo, firstResult>>

\* return library
ParseReturn ==
  /\ pc = "lines"
  /\ idx > Len(lines)
  /\ pc' = "done"
  /\ UNCHANGED <<slugVars, appVars, readerVars>>
  /\ UNCHANGED <<variant, text, lines, idx, library, books, sections, parts,
                 cursor, partCount, callNo, firstResult>>

Next ==
  \/ ParseStart
  \/ SectionLine
  \/ BookLine
  \/ CategoryLine
  \/ DelimiterLine
  \/ LanguageLine
  \/ ContentLine
  \/ SkipLine
  \/ ParseReturn

Spec == Init /\ [][Next]_vars

\* a second call of parseTextToLibrary on the same text
ParseAgain ==
  /\ pc = "done"
  /\ callNo = 1
  /\ firstResult' = Result
  /\ callNo' = 2
  /\ lines' = <<>>
  /\ idx' = 0
  /\ pc' = "start"
  /\ library' = NewLibrary
  /\ books' = <<>>
  /\ sections' = <<>>
  /\ parts' = <<>>
  /\ currentCat' = 0
  /\ currentBook' = 0
  /\ currentSection' = 0
  /\ currentPart' = 0
  /\ currentLang' = NoLang
  /\ partCount' = 0
  /\ UNCHANGED <<slugVars, appVars, readerVars>>
  /\ UNCHANGED <<variant, text>>

NextTwice == Next \/ ParseAgain

\* the part_003 revision, called twice on the same text
SpecRandom == InitFor("random", RandomTexts) /\ [][NextTwice]_vars

\* the revision with partCount and the unguarded createNewPart
SpecCounted == InitFor("counted", Texts) /\ [][Next]_vars

\* lines around the language tags: the English tag in three spellings, a tag
\* followed by text, a tag with one letter more, a second tag, a delimiter
\* and a plain line
TagLineSet ==
  { <<"[", "e", "n", "]">>,
    <<" ", "[", "E", "n", "]", " ">>,
    <<"[", "E", "N", "]">>,
    <<"[", "E", "N", "]", " ", "a">>,
    <<"[", "E", "N", "G", "]">>,
    <<"[", "c", "o", "p", "]">>,
    <<"-", "-", "-">>,
    <<"a">> }

\* inputs about tags: with or without a heading chain before the lines
TagTexts ==
  {joinLines(p \o f) :
     p \in { <<>>,
             << <<"#", " ", "A">>, <<"#", "#", " ", "B">>,
                <<"#", "#", "#", " ", "S">> >> },
     f \in UNION {[1..n -> TagLineSet] : n \in 0..MaxTagLines}}

\* parseTextToLibrary on the inputs about tags
SpecTags == InitFor("stable", TagTexts) /\ [][Next]_vars

\* parseTextToLibrary in the two revisions that number their Parts
SpecNumbered ==
  /\ (InitFor("stable", Texts) \/ InitFor("counted", Texts))
  /\ [][Next]_vars

----------------------------------------------------------------------------
(* slugify on its own                                                      *)

\* characters a title is made of: a letter of each case, a digit, each kind
\* of separator, a punctuation mark and a letter outside ASCII
TitleChars == {"A", "b", "1", " ", "-", "_", "#", "É"}

Titles == UNION {[1..n -> TitleChars] : n \in 0..MaxTitle}

SlugInit ==
  /\ variant = "stable"
  /\ text = <<>>
  /\ callNo = 1
  /\ firstResult = <<>>
  /\ FreshCall
  /\ slugText \in Titles
  /\ slugs = <<>>
  /\ store = EmptyStore
  /\ AppConstructed
  /\ ReaderConstructed

\* slugify(text)
Slugify ==
  /\ slugs = <<>>
  /\ slugs' = <<slugify(slugText)>>
  /\ UNCHANGED slugText
  /\ UNCHANGED <<parserVars, appVars, readerVars>>

SlugNext == Slugify

SlugSpec == SlugInit /\ [][SlugNext]_vars

\* slugify(slug): the function applied to a result of its own
SlugifyAgain ==
  /\ Len(slugs) = 1
  /\ slugs' = Append(slugs, slugify(slugs[1]))
  /\ UNCHANGED slugText
  /\ UNCHANGED <<parserVars, appVars, readerVars>>

SlugNextTwice == Slugify \/ SlugifyAgain

SlugSpecTwice == SlugInit /\ [][SlugNextTwice]_vars

----------------------------------------------------------------------------
(* parseTextToLibrary as the function its callers see                      *)

\* the locals of a call before the first line
LocalsAtStart ==
  [library |-> <<>>, books |-> <<>>, sections |-> <<>>, parts |-> <<>>,
   currentCat |-> 0, currentBook |-> 0, currentSection |-> 0,
   currentPart |-> 0, currentLang |-> NoLang]

\* startNewPart on the locals st
withNewPart(st) ==
  IF st.currentSection = 0 THEN st
  ELSE LET s == st.currentSection
           p == Len(st.parts) + 1
       IN  [st EXCEPT
              !.parts = Append(@, [id |-> <<"p", "a", "r", "t", "-">>
                                           \o st.sections[s].id \o <<"-">>
                                           \o numStr(Len(st.sections[s].parts) + 1),
                                   type |-> "prayer", content |-> <<>>]),
              !.sections[s].parts = Append(@, p),
              !.currentPart = p]

\* the body of lines.forEach on the locals st
parseLine(st, line) ==
  LET t == trim(line)
  IN  IF startsWith(t, H3)
      THEN LET title == headingTitle(t, H3)
               s == Len(st.sections) + 1
               id == headingId(<<"s", "e", "c">>,
                               IF st.currentBook = 0 THEN <<>>
                               ELSE st.books[st.currentBook].title,
                               <<"c", "a", "t">>, title)
               pushed == [st EXCEPT
                            !.sections = Append(@, [id |-> id, title |-> title,
                                                    parts |-> <<>>]),
                            !.books = attachSection(@, st.currentBook, s),
                            !.currentSection = s]
           IN  [withNewPart(pushed) EXCEPT !.currentLang = NoLang]
      ELSE IF startsWith(t, H2)
      THEN LET title == headingTitle(t, H2)
               b == Len(st.books) + 1
               id == headingId(<<"b", "o", "o", "k">>,
                               IF st.currentCat = 0 THEN <<>>
                               ELSE st.library[st.currentCat].title,
                               <<"r", "o", "o", "t">>, title)
           IN  [st EXCEPT
                  !.books = Append(@, [id |-> id, title |-> title, sections |-> <<>>]),
                  !.library = attachBook(@, st.currentCat, b),
                  !.currentBook = b,
                  !.currentSection = 0,
                  !.currentPart = 0]
      ELSE IF startsWith(t, H1)
      THEN LET title == headingTitle(t, H1)
           IN  [st EXCEPT
                  !.library = Append(@, [id |-> <<"c", "a", "t", "-">> \o slugify(title),
                                         title |-> title, children |-> <<>>]),
                  !.currentCat = Len(st.library) + 1,
                  !.currentBook = 0,
                  !.currentSection = 0,
                  !.currentPart = 0]
      ELSE IF t = Dashes
      THEN [withNewPart(st) EXCEPT !.currentLang = NoLang]
      ELSE IF tagLanguage(t) # NoLang
      THEN [st EXCEPT !.currentLang = tagLanguage(t)]
      ELSE IF st.currentLang # NoLang /\ st.currentPart # 0
      THEN [st EXCEPT !.parts[st.currentPart].content =
                        pushParagraph(@, st.currentLang, t)]
      ELSE st

RECURSIVE parseFrom(_, _, _)
\* lines.forEach from line i on
parseFrom(st, ls, i) ==
  IF i > Len(ls) THEN st ELSE parseFrom(parseLine(st, ls[i]), ls, i + 1)

\* `library` of the locals st with every reference followed
libraryOf(st) ==
  LET partOf(p) == st.parts[p]
      sectionOf(s) ==
        [id |-> st.sections[s].id, title |-> st.sections[s].title,
         parts |-> [i \in 1..Len(st.sections[s].parts) |->
                      partOf(st.sections[s].parts[i])]]
      bookOf(b) ==
        [id |-> st.books[b].id, title |-> st.books[b].title, type |-> "book",
         sections |-> [i \in 1..Len(st.books[b].sections) |->
                         sectionOf(st.books[b].sections[i])]]
  IN  [c \in 1..Len(st.library) |->
         [id |-> st.library[c].id, title |-> st.library[c].title,
          type |-> "category",
          children |-> [i \in 1..Len(st.library[c].children) |->
                          bookOf(st.library[c].children[i])]]]

\* ContentService.parseTextToLibrary(text)
parseTextToLibrary(t) == libraryOf(parseFrom(LocalsAtStart, split(t), 1))

\* texts the editor and the remote document hold: empty, one Section with
\* a paragraph, and a Book with two Sections of the same title
AppTexts ==
  { <<>>,
    joinLines(<< <<"#", " ", "A">>, <<"#", "#", " ", "B">>,
                 <<"#", "#", "#", " ", "S">>, <<"[", "E", "N", "]">>, <<"a">> >>),
    joinLines(<< <<"#", " ", "A">>, <<"#", "#", " ", "B">>,
                 <<"#", "#", "#", " ", "S">>, <<"-", "-", "-">>,
                 <<"#", "#", "#", " ", "S">> >>) }

\* parseTextToLibrary on each of these texts, computed once
parsedTexts == [t \in AppTexts |-> parseTextToLibrary(t)]

----------------------------------------------------------------------------
(* ContentService over localStorage                                        *)

\* a stored string given by its characters
textItem(chars) == [kind |-> "text", chars |-> chars]

\* JavaScript values JSON.parse can give: arrays carry their elements
jsArray(elems) == [t |-> "array", v |-> elems]
jsObject == [t |-> "object"]
jsNull == [t |-> "null"]
jsNumber == [t |-> "number"]

\* JSON.stringify(data) for an array data: the text that denotes it
JSONstringify(data) ==
  IF data = <<>> THEN textItem(<<"[", "]">>)
  ELSE [kind |-> "json", value |-> jsArray(data)]

\* JSON.parse(item): the value the text denotes, or a SyntaxError
JSONparse(item) ==
  IF item.kind = "json" THEN [threw |-> FALSE, value |-> item.value]
  ELSE IF item.chars = <<"[", "]">> THEN [threw |-> FALSE, value |-> jsArray(<<>>)]
  ELSE IF item.chars = <<"{", "}">> THEN [threw |-> FALSE, value |-> jsObject]
  ELSE IF item.chars = <<"n", "u", "l", "l">> THEN [threw |-> FALSE, value |-> jsNull]
  ELSE IF item.chars = <<"7">> THEN [threw |-> FALSE, value |-> jsNumber]
  ELSE [threw |-> TRUE, value |-> jsNull]

\* `if (x)` on what getItem gave: null and the empty string are falsy
truthy(item) == item # Absent /\ item # textItem(<<>>)

\* getLibrary without its try/catch
getLibraryNoCatch(st) ==
  IF truthy(st.library)
  THEN LET parsed == JSONparse(st.library)
       IN  IF parsed.threw THEN [threw |-> TRUE, value |-> <<>>]
           ELSE IF parsed.value.t = "array" THEN [threw |-> FALSE, value |-> parsed.value.v]
           ELSE [threw |-> FALSE, value |-> <<>>]
  ELSE [threw |-> FALSE, value |-> <<>>]

\* getLibrary without its Array.isArray test
getLibraryAnyJson(st) ==
  IF truthy(st.library)
  THEN LET parsed == JSONparse(st.library)
       IN  IF parsed.threw THEN [threw |-> FALSE, value |-> <<>>]
           ELSE [threw |-> FALSE, value |-> parsed.value]
  ELSE [threw |-> FALSE, value |-> <<>>]

\* ContentService.getLibrary() on the storage st
getLibrary(st) ==
  IF truthy(st.library)
  THEN LET parsed == JSONparse(st.library)
       IN  IF parsed.threw THEN [threw |-> FALSE, value |-> <<>>]
           ELSE IF parsed.value.t = "array" THEN [threw |-> FALSE, value |-> parsed.value.v]
           ELSE [threw |-> FALSE, value |-> <<>>]
  ELSE [threw |-> FALSE, value |-> <<>>]

\* ContentService.getRawText(): getItem(rawTextKey) || ''
getRawText(st) == IF st.rawText = Absent THEN <<>> ELSE st.rawText.chars

\* ContentService.getGoogleDocId(): getItem(googleDocIdKey) || ''
getGoogleDocId(st) == IF st.docId = Absent THEN <<>> ELSE st.docId.chars

\* an optional argument: left out, or given with a value
Undefined == [given |-> FALSE]
given(x) == [given |-> TRUE, value |-> x]

\* ContentService.saveLibrary(data, rawText, docId) on the storage st; the
\* failAt-th setItem it reaches throws (QuotaExceededError), none when
\* failAt is 0
saveLibrary(st, data, rawText, docId, failAt) ==
  LET n2 == IF rawText.given THEN 2 ELSE 1
      n3 == IF docId.given THEN n2 + 1 ELSE n2
      st1 == IF failAt = 1 THEN st
             ELSE [st EXCEPT !.library = JSONstringify(data)]
      st2 == IF failAt = 1 \/ ~rawText.given \/ failAt = 2 THEN st1
             ELSE [st1 EXCEPT !.rawText = textItem(rawText.value)]
      st3 == IF failAt \in 1..n2 \/ ~docId.given \/ failAt = n3 THEN st2
             ELSE [st2 EXCEPT !.docId = textItem(docId.value)]
  IN  [threw |-> failAt \in 1..n3, store |-> st3]

\* document ids: none and two documents
DocIds == {<<>>, <<"d">>, <<"e">>}

\* what the library key may hold when the application starts: nothing, the
\* empty string, text that is not JSON, JSON that is not an array, and what
\* saveLibrary wrote earlier
StoredLibraries ==
  {Absent, textItem(<<>>), textItem(<<"{">>), textItem(<<"{", "}">>),
   textItem(<<"n", "u", "l", "l">>), textItem(<<"7">>)}
    \cup {JSONstringify(parsedTexts[t]) : t \in AppTexts}

\* the parser and slugify at rest
ParserIdle ==
  /\ variant = "stable"
  /\ text = <<>>
  /\ callNo = 1
  /\ firstResult = <<>>
  /\ FreshCall
  /\ slugText = <<>>
  /\ slugs = <<>>

StorageInit ==
  /\ ParserIdle
  /\ AppConstructed
  /\ ReaderConstructed
  /\ store \in [library : StoredLibraries,
                 rawText : {Absent} \cup {textItem(t) : t \in AppTexts},
                 docId : {Absent} \cup {textItem(d) : d \in DocIds}]

\* the parts of App and Reader a ContentService call leaves alone
storageFrame ==
  UNCHANGED <<parserVars, slugVars, readerVars, appLibrary, loading, isSyncing,
              isEditorOpen, editorContent, googleDocId, inFlight>>

\* a call of ContentService.getLibrary()
GetLibrary ==
  /\ returned' = [of |-> "getLibrary"] @@ getLibrary(store)
  /\ UNCHANGED store
  /\ storageFrame

\* a call of ContentService.getRawText()
GetRawText ==
  /\ returned' = [of |-> "getRawText", threw |-> FALSE, value |-> getRawText(store)]
  /\ UNCHANGED store
  /\ storageFrame

\* a call of ContentService.getGoogleDocId()
GetGoogleDocId ==
  /\ returned' = [of |-> "getGoogleDocId", threw |-> FALSE,
                  value |-> getGoogleDocId(store)]
  /\ UNCHANGED store
  /\ storageFrame

\* a call of ContentService.saveLibrary(data, rawText, docId), any of whose
\* writes may fail
SaveLibrary ==
  \E t \in AppTexts, d \in DocIds, failAt \in 0..3 :
    LET saved == saveLibrary(store, parsedTexts[t], given(t), given(d), failAt)
    IN  /\ store' = saved.store
        /\ returned' = [of |-> "saveLibrary", threw |-> saved.threw,
                        data |-> parsedTexts[t], rawText |-> t, docId |-> d]
        /\ storageFrame

StorageNext == GetLibrary \/ GetRawText \/ GetGoogleDocId \/ SaveLibrary

StorageSpec == StorageInit /\ [][StorageNext]_vars

----------------------------------------------------------------------------
(* App: loading, syncing and saving                                        *)

\* what a storage can hold when the application starts
StartStores ==
  [library : StoredLibraries,
   rawText : {Absent} \cup {textItem(t) : t \in AppTexts},
   docId : {Absent} \cup {textItem(d) : d \in DocIds}]

\* storages no one wrote to, or that one complete saveLibrary call wrote
SavedStores ==
  {EmptyStore}
    \cup {[library |-> JSONstringify(parsedTexts[t]), rawText |-> textItem(t),
           docId |-> textItem(d)] : t \in AppTexts, d \in DocIds}

AppInitWith(stores) ==
  /\ ParserIdle
  /\ AppConstructed
  /\ ReaderConstructed
  /\ store \in stores

AppInit == AppInitWith(StartStores)

\* what App leaves alone
appFrame == UNCHANGED <<parserVars, slugVars, readerVars>>

\* syncFromGoogleDoc(docId) up to its await; from names the caller
syncStarted(from, docId) == [from |-> from, docId |-> docId]

\* loadData up to its first await (or to its end when no id is stored)
LoadData ==
  /\ loading
  /\ inFlight = NoFetch
  /\ LET storedDocId == getGoogleDocId(store)
     IN  /\ googleDocId' = storedDocId
         /\ IF storedDocId # <<>>
            THEN /\ isSyncing' = TRUE
                 /\ inFlight' = syncStarted("load", storedDocId)
                 /\ UNCHANGED <<appLibrary, editorContent, loading>>
            ELSE /\ appLibrary' = getLibrary(store).value
                 /\ editorContent' = getRawText(store)
                 /\ loading' = FALSE
                 /\ UNCHANGED <<isSyncing, inFlight>>
  /\ UNCHANGED <<store, isEditorOpen, returned>>
  /\ appFrame

\* what syncFromGoogleDoc leaves pending when it returns: its caller
\* loadData resumes with the value, the button handler ignores it
afterSync(from, success) ==
  IF from = "load" THEN [from |-> "loadData", success |-> success] ELSE NoFetch

\* a failed sync that empties the display
SyncFailsClears ==
  /\ inFlight.from \in {"load", "button"}
  /\ returned' = [of |-> "fetchGoogleDocContent", threw |-> TRUE]
  /\ isSyncing' = FALSE
  /\ inFlight' = afterSync(inFlight.from, FALSE)
  /\ appLibrary' = <<>>
  /\ UNCHANGED <<store, loading, isEditorOpen, editorContent, googleDocId>>
  /\ appFrame

\* a failed sync whose finally block is left out
SyncFailsStaysBusy ==
  /\ inFlight.from \in {"load", "button"}
  /\ returned' = [of |-> "fetchGoogleDocContent", threw |-> TRUE]
  /\ inFlight' = afterSync(inFlight.from, FALSE)
  /\ UNCHANGED <<store, appLibrary, loading, isSyncing, isEditorOpen, editorContent,
                 googleDocId>>
  /\ appFrame

\* fetchGoogleDocContent throws (network error or a status that is not ok):
\* the catch and finally blocks of syncFromGoogleDoc
SyncFails ==
  /\ inFlight.from \in {"load", "button"}
  /\ returned' = [of |-> "fetchGoogleDocContent", threw |-> TRUE]
  /\ isSyncing' = FALSE
  /\ inFlight' = afterSync(inFlight.from, FALSE)
  /\ UNCHANGED <<store, appLibrary, loading, isEditorOpen, editorContent, googleDocId>>
  /\ appFrame

\* fetchGoogleDocContent resolves with the text of the document: the rest of
\* the try block of syncFromGoogleDoc, saveLibrary throwing or not
SyncCompletes ==
  /\ inFlight.from \in {"load", "button"}
  /\ \E content \in AppTexts, failAt \in 0..3 :
       LET newLibrary == parsedTexts[content]
           saved == saveLibrary(store, newLibrary, given(content),
                                given(inFlight.docId), failAt)
       IN  /\ returned' = [of |-> "fetchGoogleDocContent", threw |-> FALSE,
                           value |-> content]
           /\ store' = saved.store
           /\ IF saved.threw
              THEN UNCHANGED <<appLibrary, editorContent>>
              ELSE /\ appLibrary' = newLibrary
                   /\ editorContent' = content
           /\ inFlight' = afterSync(inFlight.from, ~saved.threw)
  /\ isSyncing' = FALSE
  /\ UNCHANGED <<loading, isEditorOpen, googleDocId>>
  /\ appFrame

\* loadData after its sync, with the fallback left out
LoadDataResumesNoFallback ==
  /\ inFlight.from = "loadData"
  /\ loading' = FALSE
  /\ inFlight' = NoFetch
  /\ UNCHANGED <<appLibrary, editorContent>>
  /\ UNCHANGED <<store, isSyncing, isEditorOpen, googleDocId, returned>>
  /\ appFrame

\* loadData after `await syncFromGoogleDoc(storedDocId)`
LoadDataResumes ==
  /\ inFlight.from = "loadData"
  /\ IF ~inFlight.success
     THEN /\ appLibrary' = getLibrary(store).value
          /\ editorContent' = getRawText(store)
     ELSE UNCHANGED <<appLibrary, editorContent>>
  /\ loading' = FALSE
  /\ inFlight' = NoFetch
  /\ UNCHANGED <<store, isSyncing, isEditorOpen, googleDocId, returned>>
  /\ appFrame

\* the Open Database button
OpenEditor ==
  /\ ~loading
  /\ ~isEditorOpen
  /\ isEditorOpen' = TRUE
  /\ UNCHANGED <<store, appLibrary, loading, isSyncing, editorContent, googleDocId,
                 inFlight, returned>>
  /\ appFrame

\* the Cancel button
CancelEditor ==
  /\ ~loading
  /\ isEditorOpen
  /\ isEditorOpen' = FALSE
  /\ UNCHANGED <<store, appLibrary, loading, isSyncing, editorContent, googleDocId,
                 inFlight, returned>>
  /\ appFrame

\* typing in the textarea, which is disabled while syncing
TypeText ==
  /\ ~loading
  /\ isEditorOpen
  /\ ~isSyncing
  /\ \E t \in AppTexts : editorContent' = t
  /\ UNCHANGED <<store, appLibrary, loading, isSyncing, isEditorOpen, googleDocId,
                 inFlight, returned>>
  /\ appFrame

\* typing in the document id input
TypeDocId ==
  /\ ~loading
  /\ isEditorOpen
  /\ \E d \in DocIds : googleDocId' = d
  /\ UNCHANGED <<store, appLibrary, loading, isSyncing, isEditorOpen, editorContent,
                 inFlight, returned>>
  /\ appFrame

\* the Sync Now button: syncFromGoogleDoc(googleDocId) up to its await
SyncNow ==
  /\ ~loading
  /\ isEditorOpen
  /\ googleDocId # <<>>
  /\ ~isSyncing
  /\ isSyncing' = TRUE
  /\ inFlight' = syncStarted("button", googleDocId)
  /\ UNCHANGED <<store, appLibrary, loading, isEditorOpen, editorContent, googleDocId,
                 returned>>
  /\ appFrame

\* handleSaveEditor adding the new tree to the displayed one
HandleSaveEditorMerges ==
  /\ ~loading
  /\ isEditorOpen
  /\ \E failAt \in 0..3 :
       LET newLibrary == parsedTexts[editorContent]
           saved == saveLibrary(store, newLibrary, given(editorContent),
                                given(googleDocId), failAt)
       IN  /\ store' = saved.store
           /\ IF saved.threw
              THEN UNCHANGED <<appLibrary, isEditorOpen>>
              ELSE /\ appLibrary' = appLibrary \o newLibrary
                   /\ isEditorOpen' = FALSE
  /\ UNCHANGED <<loading, isSyncing, editorContent, googleDocId, inFlight, returned>>
  /\ appFrame

\* the Save & Close button: handleSaveEditor, saveLibrary throwing or not
HandleSaveEditor ==
  /\ ~loading
  /\ isEditorOpen
  /\ \E failAt \in 0..3 :
       LET newLibrary == parsedTexts[editorContent]
           saved == saveLibrary(store, newLibrary, given(editorContent),
                                given(googleDocId), failAt)
       IN  /\ store' = saved.store
           /\ IF saved.threw
              THEN UNCHANGED <<appLibrary, isEditorOpen>>
              ELSE /\ appLibrary' = newLibrary
                   /\ isEditorOpen' = FALSE
  /\ UNCHANGED <<loading, isSyncing, editorContent, googleDocId, inFlight, returned>>
  /\ appFrame

AppNext ==
  \/ LoadData
  \/ SyncFails
  \/ SyncCompletes
  \/ LoadDataResumes
  \/ OpenEditor
  \/ CancelEditor
  \/ TypeText
  \/ TypeDocId
  \/ SyncNow
  \/ HandleSaveEditor

AppSpec == AppInit /\ [][AppNext]_vars

\* App where the mount effect runs, every pending fetch settles and the
\* continuation of an await runs
AppSpecFair ==
  /\ AppInit
  /\ [][AppNext]_vars
  /\ WF_vars(LoadData)
  /\ WF_vars(SyncFails \/ SyncCompletes)
  /\ WF_vars(LoadDataResumes)

\* App started on a storage that is empty or was written by a complete save
AppSpecCached == AppInitWith(SavedStores) /\ [][AppNext]_vars

----------------------------------------------------------------------------
(* Reader: the selected Book as one flat sequence of Parts                 *)

\* texts whose parses the Reader is given: a Book of two Sections and four
\* Parts beside a Book of two Parts; the first Book with one Part; the Book
\* with two Sections of one id beside the second Book with one Part; a Book
\* without Sections; two Books of one id with different Sections
ReaderTexts ==
  { joinLines(<< <<"#", " ", "A">>, <<"#", "#", " ", "B">>,
                 <<"#", "#", "#", " ", "S">>, <<"-", "-", "-">>,
                 <<"-", "-", "-">>, <<"#", "#", "#", " ", "T">>,
                 <<"#", "#", " ", "C">>, <<"#", "#", "#", " ", "U">>,
                 <<"-", "-", "-">> >>),
    joinLines(<< <<"#", " ", "A">>, <<"#", "#", " ", "B">>,
                 <<"#", "#", "#", " ", "S">> >>),
    joinLines(<< <<"#", " ", "A">>, <<"#", "#", " ", "B">>,
                 <<"#", "#", "#", " ", "S">>, <<"-", "-", "-">>,
                 <<"#", "#", "#", " ", "S">>,
                 <<"#", "#", " ", "C">>, <<"#", "#", "#", " ", "U">> >>),
    joinLines(<< <<"#", " ", "A">>, <<"#", "#", " ", "B">> >>),
    joinLines(<< <<"#", " ", "A">>, <<"#", "#", " ", "B">>,
                 <<"#", "#", "#", " ", "S">>,
                 <<"#", "#", " ", "B">>, <<"#", "#", "#", " ", "T">> >>) }

\* the values of App's `library` state: nothing, or a parse of these texts
ReaderLibraries == {<<>>} \cup {parseTextToLibrary(t) : t \in ReaderTexts}

RECURSIVE flat(_)
\* Array.prototype.flat on an array of arrays
flat(ss) == IF ss = <<>> THEN <<>> ELSE Head(ss) \o flat(Tail(ss))

\* the Books of a Library in the order findBook and the sidebar visit them
booksOf(items) == flat([c \in 1..Len(items) |-> items[c].children])

\* App.findBook(items, id)
findBook(items, id) ==
  LET found == SelectSeq(booksOf(items), LAMBDA b : b.id = id /\ b.type = "book")
  IN  IF found = <<>> THEN NoBook ELSE Head(found)

\* a flattening that keeps only the first Part of each Section
allPartsFirstOnly(book) ==
  IF book = NoBook THEN <<>>
  ELSE flat([s \in 1..Len(book.sections) |->
               [i \in 1..(IF Len(book.sections[s].parts) = 0 THEN 0 ELSE 1) |->
                  [id |-> book.sections[s].parts[i].id,
                   type |-> book.sections[s].parts[i].type,
                   content |-> book.sections[s].parts[i].content,
                   sectionTitle |-> book.sections[s].title,
                   sectionId |-> book.sections[s].id]]])

\* Reader's `allParts` for the prop `book`
allParts(book) ==
  IF book = NoBook THEN <<>>
  ELSE flat([s \in 1..Len(book.sections) |->
               [i \in 1..Len(book.sections[s].parts) |->
                  [id |-> book.sections[s].parts[i].id,
                   type |-> book.sections[s].parts[i].type,
                   content |-> book.sections[s].parts[i].content,
                   sectionTitle |-> book.sections[s].title,
                   sectionId |-> book.sections[s].id]]])

\* allParts.findIndex(p => p.sectionId === sid), counted from 0
findIndex(ps, sid) ==
  LET hits == {i \in 1..Len(ps) : ps[i].sectionId = sid}
  IN  IF hits = {} THEN -1
      ELSE (CHOOSE i \in hits : \A j \in hits : i <= j) - 1

\* Reader's `safeIndex` for currentPartIndex and allParts.length
safeIndex(index, length) == IF index < length THEN index ELSE 0

\* what the revision with safeIndex returns for its props and state: the
\* landing page, or the Part at safeIndex (indices counted from 0)
render(book, index) ==
  LET ps == allParts(book)
      si == safeIndex(index, Len(ps))
  IN  IF book = NoBook \/ ps = <<>> \/ si \notin 0..(Len(ps) - 1)
      THEN [page |-> "landing"]
      ELSE [page |-> "part", index |-> si, part |-> ps[si + 1]]

\* what the revision without safeIndex returns: the landing page, the Part
\* at currentPartIndex, or an empty presentation when there is no such Part
renderUnclamped(book, index) ==
  LET ps == allParts(book)
  IN  IF book = NoBook \/ ps = <<>>
      THEN [page |-> "landing"]
      ELSE IF index \notin 0..(Len(ps) - 1)
      THEN [page |-> "blank", index |-> index]
      ELSE [page |-> "part", index |-> index, part |-> ps[index + 1]]

\* the slide revision's `allSlides` for the prop `book`: for each Section a
\* title slide, then one content slide for each of its Parts
allSlides(book) ==
  IF book = NoBook THEN <<>>
  ELSE flat([s \in 1..Len(book.sections) |->
               << [type |-> "title",
                   sectionTitle |-> book.sections[s].title,
                   sectionId |-> book.sections[s].id,
                   slideIndex |-> 0,
                   totalSlidesInSection |-> Len(book.sections[s].parts)] >>
               \o [i \in 1..Len(book.sections[s].parts) |->
                     [type |-> "content",
                      sectionTitle |-> book.sections[s].title,
                      sectionId |-> book.sections[s].id,
                      content |-> book.sections[s].parts[i].content,
                      slideIndex |-> i,
                      totalSlidesInSection |-> Len(book.sections[s].parts)]]])

\* what the slide revision returns, currentPartIndex holding its
\* currentSlideIndex: the landing page when safeSlide is null, else the slide
renderSlides(book, index) ==
  LET sl == allSlides(book)
  IN  IF book = NoBook \/ index \notin 0..(Len(sl) - 1)
      THEN [page |-> "landing"]
      ELSE [page |-> "slide", index |-> index, slide |-> sl[index + 1]]

\* what revision v of Reader returns
rendered(v, book, index) ==
  IF v = "clamped" THEN render(book, index)
  ELSE IF v = "slides" THEN renderSlides(book, index)
  ELSE renderUnclamped(book, index)

\* a render whose effects have still to run, and one after them
effectPending(view) == view @@ [effects |-> "pending"]
effectDone(view) == view @@ [effects |-> "done"]

\* App after loadData, showing one of the libraries, revision v of Reader
\* not yet rendered
ReaderInitFor(v) ==
  /\ ParserIdle
  /\ store = EmptyStore
  /\ appLibrary \in ReaderLibraries
  /\ loading = FALSE
  /\ isSyncing = FALSE
  /\ isEditorOpen = FALSE
  /\ editorContent = <<>>
  /\ googleDocId = <<>>
  /\ inFlight = NoFetch
  /\ returned = NoReturn
  /\ readerVariant = v
  /\ ReaderUnmounted

readerFrame ==
  UNCHANGED <<parserVars, slugVars, store, loading, isSyncing, isEditorOpen,
              editorContent, googleDocId, inFlight, returned, readerVariant,
              settings>>

\* the layout effects of the last render have run
settled == shown.page # "none" /\ shown.effects = "done"

\* the first render of Reader
Mount ==
  /\ shown.page = "none"
  /\ readerBook' = findBook(appLibrary, selectedBookId)
  /\ shown' = effectPending(rendered(readerVariant, readerBook', currentPartIndex))
  /\ UNCHANGED <<appLibrary, selectedBookId, targetSectionId, currentPartIndex,
                 lastBookIdRef>>
  /\ readerFrame

\* the sidebar's onSelectBook(id), and the render that follows
SelectBook ==
  /\ settled
  /\ \E b \in 1..Len(booksOf(appLibrary)) :
       selectedBookId' = booksOf(appLibrary)[b].id
  /\ targetSectionId' = NoTarget
  /\ readerBook' = findBook(appLibrary, selectedBookId')
  /\ shown' = effectPending(rendered(readerVariant, readerBook', currentPartIndex))
  /\ UNCHANGED <<appLibrary, currentPartIndex, lastBookIdRef>>
  /\ readerFrame

\* the sidebar's onSelectSection(bookId, sectionId), and the render that
\* follows
SelectSection ==
  /\ settled
  /\ \E b \in 1..Len(booksOf(appLibrary)) :
       \E s \in 1..Len(booksOf(appLibrary)[b].sections) :
         /\ selectedBookId' = booksOf(appLibrary)[b].id
         /\ targetSectionId' = [id |-> booksOf(appLibrary)[b].sections[s].id]
  /\ readerBook' = findBook(appLibrary, selectedBookId')
  /\ shown' = effectPending(rendered(readerVariant, readerBook', currentPartIndex))
  /\ UNCHANGED <<appLibrary, currentPartIndex, lastBookIdRef>>
  /\ readerFrame

\* App's setLibrary with a newly parsed Library, and the render that follows
SetLibrary ==
  /\ settled
  /\ \E lib \in ReaderLibraries : appLibrary' = lib
  /\ readerBook' = findBook(appLibrary', selectedBookId)
  /\ shown' = effectPending(rendered(readerVariant, readerBook', currentPartIndex))
  /\ UNCHANGED <<selectedBookId, targetSectionId, currentPartIndex, lastBookIdRef>>
  /\ readerFrame

\* the navigation layout effect, with the renders its state changes cause
LayoutEffect ==
  /\ readerVariant = "clamped"
  /\ shown.page # "none"
  /\ shown.effects = "pending"
  /\ LET ps == allParts(readerBook)
         targetIndex == IF targetSectionId = NoTarget THEN -1
                        ELSE findIndex(ps, targetSectionId.id)
     IN  IF readerBook = NoBook \/ ps = <<>>
         THEN UNCHANGED <<currentPartIndex, targetSectionId, lastBookIdRef>>
         ELSE IF targetIndex # -1
         THEN /\ currentPartIndex' = targetIndex
              /\ targetSectionId' = NoTarget
              /\ lastBookIdRef' = [id |-> readerBook.id]
         ELSE IF lastBookIdRef # [id |-> readerBook.id]
         THEN /\ currentPartIndex' = 0
              /\ lastBookIdRef' = [id |-> readerBook.id]
              /\ UNCHANGED targetSectionId
         ELSE UNCHANGED <<currentPartIndex, targetSectionId, lastBookIdRef>>
  /\ shown' = effectDone(rendered(readerVariant, readerBook, currentPartIndex'))
  /\ UNCHANGED <<appLibrary, selectedBookId, readerBook>>
  /\ readerFrame

\* the two effects of the revision without safeIndex, navigation and then
\* the out-of-bounds reset, both reading the currentPartIndex of the render
\* they follow; with the renders their state changes cause
Effects ==
  /\ readerVariant = "effects"
  /\ shown.page # "none"
  /\ shown.effects = "pending"
  /\ LET ps == allParts(readerBook)
         targetIndex == IF targetSectionId = NoTarget THEN -1
                        ELSE findIndex(ps, targetSectionId.id)
         navigated ==
           IF readerBook = NoBook
           THEN [index |-> currentPartIndex, target |-> targetSectionId,
                 last |-> NoBook]
           ELSE IF targetIndex # -1
           THEN [index |-> targetIndex, target |-> NoTarget,
                 last |-> [id |-> readerBook.id]]
           ELSE IF lastBookIdRef # [id |-> readerBook.id]
           THEN [index |-> 0, target |-> targetSectionId,
                 last |-> [id |-> readerBook.id]]
           ELSE [index |-> currentPartIndex, target |-> targetSectionId,
                 last |-> lastBookIdRef]
     IN  /\ currentPartIndex' =
              IF currentPartIndex >= Len(ps) /\ Len(ps) > 0 THEN 0
              ELSE navigated.index
         /\ targetSectionId' = navigated.target
         /\ lastBookIdRef' = navigated.last
  /\ shown' = effectDone(rendered(readerVariant, readerBook, currentPartIndex'))
  /\ UNCHANGED <<appLibrary, selectedBookId, readerBook>>
  /\ readerFrame

\* handlePresentationClick on the left half
ClickPrev ==
  /\ settled
  /\ shown.page # "landing"
  /\ currentPartIndex' = IF currentPartIndex - 1 > 0 THEN currentPartIndex - 1 ELSE 0
  /\ shown' = effectDone(rendered(readerVariant, readerBook, currentPartIndex'))
  /\ UNCHANGED <<appLibrary, selectedBookId, readerBook, targetSectionId,
                 lastBookIdRef>>
  /\ readerFrame

\* handlePresentationClick on the right half
ClickNext ==
  /\ settled
  /\ shown.page # "landing"
  /\ LET last == Len(allParts(readerBook)) - 1
     IN  currentPartIndex' = IF last < currentPartIndex + 1 THEN last
                             ELSE currentPartIndex + 1
  /\ shown' = effectDone(rendered(readerVariant, readerBook, currentPartIndex'))
  /\ UNCHANGED <<appLibrary, selectedBookId, readerBook, targetSectionId,
                 lastBookIdRef>>
  /\ readerFrame

ReaderNext ==
  \/ Mount
  \/ SelectBook
  \/ SelectSection
  \/ SetLibrary
  \/ LayoutEffect
  \/ ClickPrev
  \/ ClickNext

ReaderSpec == ReaderInitFor("clamped") /\ [][ReaderNext]_vars

\* the revision of Reader without safeIndex
ReaderNextEffects ==
  \/ Mount
  \/ SelectBook
  \/ SelectSection
  \/ SetLibrary
  \/ Effects
  \/ ClickPrev
  \/ ClickNext

ReaderSpecEffects == ReaderInitFor("effects") /\ [][ReaderNextEffects]_vars

\* the navigation layout effect of the slide revision, with the renders its
\* state changes cause
SlideEffect ==
  /\ readerVariant = "slides"
  /\ shown.page # "none"
  /\ shown.effects = "pending"
  /\ LET sl == allSlides(readerBook)
         targetIndex == IF targetSectionId = NoTarget THEN -1
                        ELSE findIndex(sl, targetSectionId.id)
     IN  IF readerBook = NoBook \/ sl = <<>>
         THEN UNCHANGED <<currentPartIndex, targetSectionId, lastBookIdRef>>
         ELSE IF targetIndex # -1
         THEN /\ currentPartIndex' = targetIndex
              /\ targetSectionId' = NoTarget
              /\ lastBookIdRef' = [id |-> readerBook.id]
         ELSE IF lastBookIdRef # [id |-> readerBook.id]
         THEN /\ currentPartIndex' = 0
              /\ lastBookIdRef' = [id |-> readerBook.id]
              /\ UNCHANGED targetSectionId
         ELSE UNCHANGED <<currentPartIndex, targetSectionId, lastBookIdRef>>
  /\ shown' = effectDone(rendered(readerVariant, readerBook, currentPartIndex'))
  /\ UNCHANGED <<appLibrary, selectedBookId, readerBook>>
  /\ readerFrame

\* handleNav on the left third
NavPrev ==
  /\ readerVariant = "slides"
  /\ settled
  /\ shown.page # "landing"
  /\ currentPartIndex' = IF currentPartIndex - 1 > 0 THEN currentPartIndex - 1 ELSE 0
  /\ shown' = effectDone(rendered(readerVariant, readerBook, currentPartIndex'))
  /\ UNCHANGED <<appLibrary, selectedBookId, readerBook, targetSectionId,
                 lastBookIdRef>>
  /\ readerFrame

\* handleNav on the rest
NavNext ==
  /\ readerVariant = "slides"
  /\ settled
  /\ shown.page # "landing"
  /\ LET last == Len(allSlides(readerBook)) - 1
     IN  currentPartIndex' = IF last < currentPartIndex + 1 THEN last
                             ELSE currentPartIndex + 1
  /\ shown' = effectDone(rendered(readerVariant, readerBook, currentPartIndex'))
  /\ UNCHANGED <<appLibrary, selectedBookId, readerBook, targetSectionId,
                 lastBookIdRef>>
  /\ readerFrame

\* the slide revision of Reader
ReaderNextSlides ==
  \/ Mount
  \/ SelectBook
  \/ SelectSection
  \/ SetLibrary
  \/ SlideEffect
  \/ NavPrev
  \/ NavNext

\* the slide revision, its layout effect running after every render
ReaderSpecSlides ==
  /\ ReaderInitFor("slides")
  /\ [][ReaderNextSlides]_vars
  /\ WF_vars(SlideEffect)

----------------------------------------------------------------------------
(* The language toggles of the header                                      *)

\* Array.prototype.includes
includes(s, x) == \E i \in 1..Len(s) : s[i] = x

\* the updater without its guard for the last enabled Language
toggleLanguageUnguarded(prev, lang) ==
  [prev EXCEPT !.languages =
     IF includes(prev.languages, lang)
     THEN SelectSeq(prev.languages, LAMBDA l : l # lang)
     ELSE Append(prev.languages, lang)]

\* the updater toggleLanguage(lang) hands to setSettings
toggleLanguage(prev, lang) ==
  LET isSelected == includes(prev.languages, lang)
  IN  IF isSelected /\ Len(prev.languages) = 1 THEN prev
      ELSE [prev EXCEPT !.languages =
              IF isSelected THEN SelectSeq(prev.languages, LAMBDA l : l # lang)
              ELSE Append(prev.languages, lang)]

\* a click on one of the five language buttons of the header
ToggleLanguage ==
  /\ ~loading
  /\ \E lang \in Languages : settings' = toggleLanguage(settings, lang)
  /\ UNCHANGED <<parserVars, slugVars, appVars>>
  /\ UNCHANGED <<readerVariant, selectedBookId, readerBook, targetSectionId,
                 currentPartIndex, lastBookIdRef, shown>>

SettingsInit ==
  /\ ParserIdle
  /\ store = EmptyStore
  /\ AppConstructed
  /\ ReaderConstructed

SettingsNext ==
  \/ LoadData
  \/ ToggleLanguage

SettingsSpec == SettingsInit /\ [][SettingsNext]_vars

----------------------------------------------------------------------------
(* Vocabulary of the properties: the input as the grammar describes it     *)

\* the physical lines of the input
srcLines == split(text)

\* number of leading '#' of the trimmed line, 3 standing for three or more
hashLevel(l) ==
  LET t == trim(l)
  IN  IF Len(t) >= 3 /\ t[1] = "#" /\ t[2] = "#" /\ t[3] = "#" THEN 3
      ELSE IF Len(t) >= 2 /\ t[1] = "#" /\ t[2] = "#" THEN 2
      ELSE IF Len(t) >= 1 /\ t[1] = "#" THEN 1
      ELSE 0

\* what follows the heading marker, trimmed
remainder(l) ==
  LET t == trim(l)
  IN  trim(SubSeq(t, hashLevel(l) + 1, Len(t)))

isBlank(l) == \A i \in 1..Len(l) : l[i] \in WS
isDelimiter(l) == trim(l) = <<"-", "-", "-">>

\* the Language a line is the tag of, NoLang for any other line
tagOf(l) ==
  LET u == toUpperCase(trim(l))
  IN  IF u = <<"[", "E", "N", "]">> THEN "EN"
      ELSE IF u = <<"[", "C", "O", "P", "]">> THEN "COP"
      ELSE IF u = <<"[", "A", "R", "]">> THEN "AR"
      ELSE IF u = <<"[", "T", "R", "A", "N", "-", "E", "N", "]">> THEN "TRAN-EN"
      ELSE IF u = <<"[", "T", "R", "A", "N", "-", "A", "R", "]">> THEN "TRAN-AR"
      ELSE NoLang

\* a non-blank line that is no heading, delimiter or language tag
isPlain(l) ==
  ~isBlank(l) /\ hashLevel(l) = 0 /\ ~isDelimiter(l) /\ tagOf(l) = NoLang

\* positions of the lines of heading level n
levelLines(n) == {i \in 1..Len(srcLines) : hashLevel(srcLines[i]) = n}

\* the k-th smallest element of a set of positions
nth(S, k) == CHOOSE i \in S : Cardinality({j \in S : j <= i}) = k

\* the first position after i that is in S, or one past the last line
nextIn(S, i) ==
  IF \E j \in S : j > i
  THEN CHOOSE j \in S : j > i /\ \A m \in S : m > i => j <= m
  ELSE Len(srcLines) + 1

\* the last position before i that is in S, or 0
lastIn(S, i) ==
  IF \E j \in S : j < i
  THEN CHOOSE j \in S : j < i /\ \A m \in S : m < i => m <= j
  ELSE 0

\* every ## has a # before it, every ### a ## of the same Category
wellParented ==
  /\ \A i \in levelLines(2) : lastIn(levelLines(1), i) > 0
  /\ \A i \in levelLines(3) :
       /\ lastIn(levelLines(2), i) > 0
       /\ lastIn(levelLines(1), i) < lastIn(levelLines(2), i)

\* number of lines already consumed by the loop
consumed == IF pc = "lines" THEN idx - 1 ELSE IF pc = "done" THEN Len(srcLines) ELSE 0

isChar(c) == c \in WS \cup WordChars \cup {"#", "-", "[", "]"}
isString(x) == DOMAIN x = 1..Len(x) /\ \A i \in 1..Len(x) : isChar(x[i])

isPartValue(p) ==
  /\ DOMAIN p = {"id", "type", "content"}
  /\ isString(p.id)
  /\ p.type \in {"prayer", "hymn", "reading", "instruction"}
  /\ DOMAIN p.content \subseteq Languages
  /\ \A l \in DOMAIN p.content :
       /\ DOMAIN p.content[l] = 1..Len(p.content[l])
       /\ \A i \in 1..Len(p.content[l]) : isString(p.content[l][i])

isSectionValue(x) ==
  /\ DOMAIN x = {"id", "title", "parts"}
  /\ isString(x.id) /\ isString(x.title)
  /\ \A i \in 1..Len(x.parts) : isPartValue(x.parts[i])

isBookValue(b) ==
  /\ DOMAIN b = {"id", "title", "type", "sections"}
  /\ isString(b.id) /\ isString(b.title) /\ b.type = "book"
  /\ \A i \in 1..Len(b.sections) : isSectionValue(b.sections[i])

isLibraryValue(lib) ==
  /\ DOMAIN lib = 1..Len(lib)
  /\ \A c \in 1..Len(lib) :
       /\ DOMAIN lib[c] = {"id", "title", "type", "children"}
       /\ isString(lib[c].id) /\ isString(lib[c].title)
       /\ lib[c].type = "category"
       /\ \A i \in 1..Len(lib[c].children) : isBookValue(lib[c].children[i])

\* references that belong to the returned tree
attachedBooks ==
  UNION {{library[c].children[i] : i \in 1..Len(library[c].children)} :
           c \in 1..Len(library)}

attachedSections ==
  UNION {{books[b].sections[i] : i \in 1..Len(books[b].sections)} :
           b \in attachedBooks}

\* the paragraph list of Part p for Language l, empty when the key is absent
paragraphs(p, l) ==
  IF l \in DOMAIN parts[p].content THEN parts[p].content[l] ELSE <<>>

----------------------------------------------------------------------------
(* Properties                                                              *)

\* C1: parseTextToLibrary is total and never throws: no step throws, every
\* line takes one of the branches of the loop whatever the cursor is, the
\* loop stays within the lines, and what the call returns is a Library value.
C1_ParseIsTotal ==
  /\ pc \in {"start", "lines", "done"}
  /\ (pc = "lines" => idx \in 1..(Len(lines) + 1))
  /\ (AtLine => kind \in {"section", "book", "category", "delimiter",
                          "language", "content", "skip"})
  /\ (pc = "done" => isLibraryValue(Result))

\* a call that returned a non-empty Library from an input with an orphan
\* Section in it
C1_Witness ==
  /\ pc = "done"
  /\ library # <<>>
  /\ \E s \in 1..Len(sections) : s \notin attachedSections
  /\ \E i \in 1..Len(srcLines) : isDelimiter(srcLines[i])

\* C2: two calls of parseTextToLibrary on the same text return structurally
\* equal Libraries (same identifiers, order and content).
C2_Deterministic ==
  (callNo = 2 /\ pc = "done") => Result = firstResult

\* C3: for input whose headings all have their parent, the Library has one
\* Category per # line, one Book per ## line under the nearest preceding
\* Category and one Section per ### line under the nearest preceding Book,
\* in source order, each titled by the trimmed remainder of its line.
C3_HeadingsBecomeNodes ==
  (pc = "done" /\ wellParented) =>
    LET cats == levelLines(1)
    IN  /\ Len(Result) = Cardinality(cats)
        /\ \A c \in 1..Len(Result) :
             LET cp == nth(cats, c)
                 bks == {i \in levelLines(2) : cp < i /\ i < nextIn(cats, cp)}
             IN  /\ Result[c].title = remainder(srcLines[cp])
                 /\ Len(Result[c].children) = Cardinality(bks)
                 /\ \A k \in 1..Len(Result[c].children) :
                      LET bp == nth(bks, k)
                          bend == nextIn(levelLines(2) \cup cats, bp)
                          secs == {i \in levelLines(3) : bp < i /\ i < bend}
                          book == Result[c].children[k]
                      IN  /\ book.title = remainder(srcLines[bp])
                          /\ Len(book.sections) = Cardinality(secs)
                          /\ \A j \in 1..Len(book.sections) :
                               book.sections[j].title = remainder(srcLines[nth(secs, j)])

\* a well-parented input with two Books in a Category and two Sections in a Book
C3_Witness ==
  /\ pc = "done"
  /\ wellParented
  /\ \E c \in 1..Len(library) : Len(library[c].children) >= 2
  /\ \E b \in attachedBooks : Len(books[b].sections) >= 2

\* C4: a ### line creates one Section and no Book or Category, a ## line one
\* Book and no Section or Category, a # line one Category and nothing else.
C4_Step ==
  AtLine =>
    LET lv == hashLevel(lines[idx])
        made == <<Len(library') - Len(library), Len(books') - Len(books),
                  Len(sections') - Len(sections)>>
    IN  /\ lv = 3 => made = <<0, 0, 1>>
        /\ lv = 2 => made = <<0, 1, 0>>
        /\ lv = 1 => made = <<1, 0, 0>>

C4_HeadingPrecedence == [][C4_Step]_vars

\* a ### line has just been parsed under a Book
C4_Witness ==
  /\ pc = "lines"
  /\ idx > 1
  /\ hashLevel(lines[idx - 1]) = 3
  /\ currentBook # 0
  /\ currentSection \in attachedSections

\* C5: the paragraph list of the current Part for each Language is the
\* sequence, in source order, of the trimmed plain lines that came after the
\* Part was opened while that Language was active.
C5_ContentAppended ==
  (pc \in {"lines", "done"} /\ currentPart # 0) =>
    LET n == consumed
        marks == {j \in 1..n : hashLevel(srcLines[j]) > 0 \/ isDelimiter(srcLines[j])}
        start == lastIn(marks, n + 1)
        tags == {j \in (start + 1)..n : tagOf(srcLines[j]) # NoLang}
        langAt(j) == IF lastIn(tags, j) = 0 THEN NoLang
                     ELSE tagOf(srcLines[lastIn(tags, j)])
    IN  \A l \in Languages :
          LET said == {j \in (start + 1)..n : isPlain(srcLines[j]) /\ langAt(j) = l}
              have == paragraphs(currentPart, l)
          IN  /\ Len(have) = Cardinality(said)
              /\ \A k \in 1..Len(have) : have[k] = trim(srcLines[nth(said, k)])

\* the current Part holds two different English paragraphs, the second one
\* from a line with blanks around it
C5_Witness ==
  /\ pc = "done"
  /\ currentPart # 0
  /\ paragraphs(currentPart, "EN") = << <<"a">>, <<"b">> >>

\* C6: no paragraph list of any Part holds an empty or whitespace-only string.
C6_NoBlankParagraph ==
  \A p \in 1..Len(parts) : \A l \in DOMAIN parts[p].content :
    \A i \in 1..Len(parts[p].content[l]) : ~isBlank(parts[p].content[l][i])

\* a blank line has just been parsed inside a language block that has text
C6_Witness ==
  /\ pc = "lines"
  /\ idx > 1
  /\ isBlank(lines[idx - 1])
  /\ currentLang # NoLang
  /\ currentPart # 0
  /\ paragraphs(currentPart, currentLang) # <<>>

\* C7: a --- line with a current Section appends one empty Part to that
\* Section, makes it current and clears the active Language, touching no
\* other Part; a Section of the Library has 1 + (number of --- lines between
\* its heading and the next heading) Parts; a step changes no Part but the
\* one that is current after it.
C7_Step ==
  /\ (AtLine /\ isDelimiter(lines[idx]) /\ currentSection # 0) =>
       /\ Len(parts') = Len(parts) + 1
       /\ parts'[Len(parts')].content = <<>>
       /\ sections' = [sections EXCEPT ![currentSection].parts = Append(@, Len(parts'))]
       /\ currentPart' = Len(parts')
       /\ currentLang' = NoLang
       /\ UNCHANGED <<library, books, currentCat, currentBook, currentSection>>
  /\ AtLine => \A p \in 1..Len(parts) : p # currentPart' => parts'[p] = parts[p]

C7_PartCount ==
  pc \in {"lines", "done"} =>
    \A s \in attachedSections :
      LET sp == nth(levelLines(3), s)
          hend == nextIn({i \in 1..Len(srcLines) : hashLevel(srcLines[i]) > 0}, sp)
          dashes == {j \in (sp + 1)..(hend - 1) : j <= consumed /\ isDelimiter(srcLines[j])}
      IN  Len(sections[s].parts) = 1 + Cardinality(dashes)

C7_DelimiterStartsPart == [][C7_Step]_vars /\ []C7_PartCount

\* a Section of the Library has two Parts and the one after the --- has text
C7_Witness ==
  /\ pc = "done"
  /\ \E s \in attachedSections :
       /\ Len(sections[s].parts) = 2
       /\ parts[sections[s].parts[1]].content # <<>>
       /\ parts[sections[s].parts[2]].content # <<>>

\* C8: every Section has at least one Part, and right after its ### line the
\* Section's only Part is empty and is the current Part.
C8_SectionHasPart ==
  /\ \A s \in 1..Len(sections) : Len(sections[s].parts) >= 1
  /\ (pc = "lines" /\ idx > 1 /\ hashLevel(lines[idx - 1]) = 3) =>
       /\ currentSection = Len(sections)
       /\ currentPart = Len(parts)
       /\ sections[currentSection].parts = <<currentPart>>
       /\ parts[currentPart].content = <<>>

\* the first ### line of an input has just been parsed under a Book
C8_Witness ==
  /\ pc = "lines"
  /\ idx > 1
  /\ hashLevel(lines[idx - 1]) = 3
  /\ Len(sections) = 1
  /\ currentSection \in attachedSections

\* C9: empty or whitespace-only input yields a Library with no Category.
C9_BlankInputEmptyLibrary ==
  (pc = "done" /\ isBlank(text)) => Result = <<>>

\* the call returned on an input of several blank lines
C9_Witness ==
  /\ pc = "done"
  /\ isBlank(text)
  /\ Len(srcLines) >= 3
  /\ \E i \in 1..Len(srcLines) : srcLines[i] # <<>>

\* C10: input without a Category heading line yields an empty Library.
C10_NoCategoryEmptyLibrary ==
  (pc = "done" /\ levelLines(1) = {}) => Result = <<>>

\* the call returned on an input with a Section and text but no Category
C10_Witness ==
  /\ pc = "done"
  /\ levelLines(1) = {}
  /\ sections # <<>>
  /\ \E p \in 1..Len(parts) : parts[p].content # <<>>

\* the Sections that hold a reference to Part p
ownersOfPart(p) ==
  {s \in 1..Len(sections) : \E i \in 1..Len(sections[s].parts) : sections[s].parts[i] = p}

\* C11: orphan headings are dropped: the Books of the Library are those of
\* the ## lines that have a Category before them, its Sections those of the
\* ### lines under such a Book; no Part is shared with an orphan Section, and
\* every paragraph of the Library comes from a line between its Section's
\* heading and the next heading.
C11_OrphansDropped ==
  pc \in {"lines", "done"} =>
    LET src == srcLines
        level == [i \in 1..Len(src) |-> hashLevel(src[i])]
        said == [i \in 1..Len(src) |-> trim(src[i])]
        L1 == {i \in 1..Len(src) : level[i] = 1}
        L2 == {i \in 1..Len(src) : level[i] = 2}
        L3 == {i \in 1..Len(src) : level[i] = 3}
        \* a ## line with a # line before it
        parentedBookLine(i) == \E c \in L1 : c < i
        \* a ### line whose nearest heading of level 1 or 2 is a ## line
        \* with a parent
        parentedSectionLine(i) ==
          \E b \in L2 : /\ b < i
                         /\ \A m \in L1 \cup L2 : m < i => m <= b
                         /\ parentedBookLine(b)
        \* the k-th line of S
        line(S, k) == CHOOSE i \in S : Cardinality({j \in S : j <= i}) = k
        \* the lines after line i up to the next heading
        body(i) == {j \in (i + 1)..Len(src) : \A m \in (i + 1)..j : level[m] = 0}
    IN  /\ attachedBooks = {k \in 1..Len(books) : parentedBookLine(line(L2, k))}
        /\ attachedSections = {k \in 1..Len(sections) : parentedSectionLine(line(L3, k))}
        /\ \A p \in 1..Len(parts) : Cardinality(ownersOfPart(p)) <= 1
        /\ \A s \in attachedSections :
             LET under == {said[j] : j \in body(line(L3, s))}
             IN  \A i \in 1..Len(sections[s].parts) :
                   \A l \in DOMAIN parts[sections[s].parts[i]].content :
                     \A k \in 1..Len(parts[sections[s].parts[i]].content[l]) :
                       parts[sections[s].parts[i]].content[l][k] \in under

\* the call returned a Library with a Section in it, having met an orphan
\* Section as well
C11_Witness ==
  /\ pc = "done"
  /\ attachedSections # {}
  /\ \E s \in 1..Len(sections) : s \notin attachedSections

\* the Books that hold a reference to Section s
ownersOfSection(s) ==
  {b \in 1..Len(books) : \E i \in 1..Len(books[b].sections) : books[b].sections[i] = s}

\* C12: two Sections of the Library with the same title that belong to two
\* different Books have different identifiers.
C12_SectionIdsDifferAcrossBooks ==
  \A s1, s2 \in attachedSections :
    (/\ sections[s1].title = sections[s2].title
     /\ \E b1 \in ownersOfSection(s1), b2 \in ownersOfSection(s2) : b1 # b2)
      => sections[s1].id # sections[s2].id

\* no two elements of the sequence of references refs have the same id in heap
distinctIds(heap, refs) ==
  \A i, j \in 1..Len(refs) : i # j => heap[refs[i]].id # heap[refs[j]].id

\* C13: identifiers are unique among siblings: the Categories of the
\* Library, the Books of a Category, the Sections of a Book and the Parts of
\* a Section each have pairwise different ids.
C13_SiblingIdsUnique ==
  /\ \A i, j \in 1..Len(library) : i # j => library[i].id # library[j].id
  /\ \A c \in 1..Len(library) : distinctIds(books, library[c].children)
  /\ \A b \in 1..Len(books) : distinctIds(sections, books[b].sections)
  /\ \A s \in 1..Len(sections) : distinctIds(parts, sections[s].parts)

----------------------------------------------------------------------------
(* C14 *)

AsciiLower ==
  {"a", "b", "c", "d", "e", "f", "g", "h", "i", "j", "k", "l", "m", "n", "o",
   "p", "q", "r", "s", "t", "u", "v", "w", "x", "y", "z"}

urlSafe(r) ==
  /\ \A i \in 1..Len(r) : r[i] \in AsciiLower \cup DigitChars \cup {"-"}
  /\ \A i \in 1..(Len(r) - 1) : ~(r[i] = "-" /\ r[i + 1] = "-")
  /\ r # <<>> => r[1] # "-" /\ r[Len(r)] # "-"

\* C14: whatever the title, what slugify returns holds only lower-case
\* ASCII letters, digits and hyphens, has no two hyphens next to each other
\* and neither starts nor ends with a hyphen; its letters and digits are
\* those of the title, lowered, in the title's order.
C14_SlugUrlSafe ==
  \A k \in 1..Len(slugs) :
    /\ urlSafe(slugs[k])
    /\ SelectSeq(slugs[k], LAMBDA c : c # "-")
         = SelectSeq(toLowerCase(slugText), LAMBDA c : c \in AsciiLower \cup DigitChars)

C14_Witness ==
  /\ slugs = << <<"a", "-", "b">> >>
  /\ \E i, j, k \in 1..Len(slugText) :
       slugText[i] = "A" /\ slugText[j] = "_" /\ slugText[k] \in {"#", "É"}

----------------------------------------------------------------------------
(* C15 *)

\* C15: a language tag line removes and moves no paragraph and keeps the
\* current Part; a plain line under an active Language puts its trimmed text
\* after the paragraphs the current Part already has for that Language, so a
\* tag opened again within the same Part continues its earlier list.
C15_Step ==
  /\ (AtLine /\ tagOf(lines[idx]) # NoLang) =>
       /\ parts' = parts
       /\ currentPart' = currentPart
       /\ currentLang' = tagOf(lines[idx])
  /\ (AtLine /\ isPlain(lines[idx]) /\ currentPart # 0 /\ currentLang # NoLang) =>
       /\ currentPart' = currentPart
       /\ currentLang' = currentLang
       /\ paragraphs(currentPart, currentLang)'
            = Append(paragraphs(currentPart, currentLang), trim(lines[idx]))

C15_ReopenedTagAppends == [][C15_Step]_vars

\* [EN] a, [AR], [EN] b within one Part: the English list is a, b
C15_Witness ==
  /\ pc = "done"
  /\ currentPart # 0
  /\ \E i, j, k \in 1..Len(srcLines) :
       /\ i < j /\ j < k /\ k < Len(srcLines)
       /\ tagOf(srcLines[i]) = "EN" /\ isPlain(srcLines[i + 1])
       /\ tagOf(srcLines[j]) = "AR"
       /\ tagOf(srcLines[k]) = "EN" /\ isPlain(srcLines[k + 1])
       /\ \A m \in i..Len(srcLines) :
            hashLevel(srcLines[m]) = 0 /\ ~isDelimiter(srcLines[m])
       /\ paragraphs(currentPart, "EN")
            = <<trim(srcLines[i + 1]), trim(srcLines[k + 1])>>

----------------------------------------------------------------------------
(* C16 *)

\* a language tag is about to be read and no Part is current
tagWithoutPart == AtLine /\ tagOf(lines[idx]) # NoLang /\ currentPart = 0

\* C16 as stated: a language tag line read when there is no current Part
\* leaves the Library and all five cursor values as they were.
C16_Stated ==
  tagWithoutPart =>
    /\ Result' = Result
    /\ UNCHANGED <<currentCat, currentBook, currentSection, currentPart, currentLang>>

C16_TagWithoutPartIsNoOp == [][C16_Stated]_vars

\* C16, amended: a language tag line read when there is no current Part
\* leaves the Library, every object built so far and the current Category,
\* Book, Section and Part as they were, and makes the tag's Language the
\* active one; a Part never becomes current with a Language still active.
C16_Step ==
  /\ tagWithoutPart =>
       /\ Result' = Result
       /\ UNCHANGED <<library, books, sections, parts>>
       /\ UNCHANGED <<currentCat, currentBook, currentSection, currentPart>>
       /\ currentLang' = tagOf(lines[idx])
  /\ (currentPart' # currentPart /\ currentPart' # 0) => currentLang' = NoLang

C16_TagWithoutPartSetsLanguage == [][C16_Step]_vars

\* a lower-case tag has just been read with no Part current
C16_Witness ==
  /\ pc = "lines"
  /\ idx > 1
  /\ currentPart = 0
  /\ lines[idx - 1] = <<"[", "a", "r", "]">>
  /\ currentLang = "AR"

----------------------------------------------------------------------------
(* C17 *)

\* C17: a --- line read when there is no current Section creates no Part
\* and leaves the Library and the five cursor values as they were.
C17_Stated ==
  (AtLine /\ isDelimiter(lines[idx]) /\ currentSection = 0) =>
    /\ Len(parts') = Len(parts)
    /\ Result' = Result
    /\ UNCHANGED <<currentCat, currentBook, currentSection, currentPart, currentLang>>

C17_DelimiterWithoutSectionIsNoOp == [][C17_Stated]_vars

----------------------------------------------------------------------------
(* C18 *)

\* C18: a Language key is in a Part's content mapping only if at least one
\* paragraph was appended for that Language, and every key is one of the
\* five Languages; a tag alone, or a tag followed only by blank lines,
\* leaves the mapping without the key.
C18_KeyOnlyWithParagraph ==
  \A p \in 1..Len(parts) :
    /\ DOMAIN parts[p].content \subseteq Languages
    /\ \A l \in DOMAIN parts[p].content : Len(parts[p].content[l]) >= 1

----------------------------------------------------------------------------
(* C19 *)

headingLines == {i \in 1..Len(srcLines) : hashLevel(srcLines[i]) > 0}

\* level of the last heading among the first n lines, 0 when there is none
lastHeadingLevel(n) ==
  LET h == lastIn(headingLines, n + 1)
  IN  IF h = 0 THEN 0 ELSE hashLevel(srcLines[h])

\* C19: once a ## line is read there is no current Section and no current
\* Part, and once a # line is read there is no current Book either, until
\* the next heading; a line that is not a heading, read after a ## or #
\* line and before the next ### line, changes nothing in the Library and in
\* no Part built so far.
C19_Cleared ==
  pc \in {"lines", "done"} =>
    /\ lastHeadingLevel(consumed) \in {1, 2} => currentSection = 0 /\ currentPart = 0
    /\ lastHeadingLevel(consumed) = 1 => currentBook = 0

C19_Step ==
  (AtLine /\ lastHeadingLevel(idx - 1) \in {1, 2} /\ hashLevel(lines[idx]) = 0) =>
    /\ Result' = Result
    /\ parts' = parts

C19_HeadingClearsCursors == [][C19_Step]_vars /\ []C19_Cleared

\* a paragraph written under a Section, then a ## line, then a plain line
\* while a Language is still active
C19_Witness ==
  /\ pc = "done"
  /\ Len(srcLines) > 2
  /\ hashLevel(srcLines[Len(srcLines) - 1]) = 2
  /\ isPlain(srcLines[Len(srcLines)])
  /\ currentLang # NoLang
  /\ currentPart = 0
  /\ \E s \in attachedSections : \E i \in 1..Len(sections[s].parts) :
       paragraphs(sections[s].parts[i], "EN") # <<>>

----------------------------------------------------------------------------
(* C20 *)

isPrefix(a, b) == Len(a) <= Len(b) /\ \A i \in 1..Len(a) : a[i] = b[i]

partExtends(p, q) ==
  /\ p.id = q.id /\ p.type = q.type
  /\ DOMAIN p.content \subseteq DOMAIN q.content
  /\ \A l \in DOMAIN p.content : isPrefix(p.content[l], q.content[l])

sectionExtends(s, t) ==
  /\ s.id = t.id /\ s.title = t.title
  /\ Len(s.parts) <= Len(t.parts)
  /\ \A i \in 1..Len(s.parts) : partExtends(s.parts[i], t.parts[i])

bookExtends(b, c) ==
  /\ b.id = c.id /\ b.title = c.title /\ b.type = c.type
  /\ Len(b.sections) <= Len(c.sections)
  /\ \A i \in 1..Len(b.sections) : sectionExtends(b.sections[i], c.sections[i])

categoryExtends(c, d) ==
  /\ c.id = d.id /\ c.title = d.title /\ c.type = d.type
  /\ Len(c.children) <= Len(d.children)
  /\ \A i \in 1..Len(c.children) : bookExtends(c.children[i], d.children[i])

libraryExtends(x, y) ==
  /\ Len(x) <= Len(y)
  /\ \A i \in 1..Len(x) : categoryExtends(x[i], y[i])

\* C20: the Library after a line extends the Library before it: every
\* Category, Book, Section, Part and paragraph keeps its place, id, title
\* and text, and new ones come after the old ones; a line that is no
\* heading, delimiter or tag adds no node and changes no paragraph list but
\* the one of the current Part for the active Language.
C20_Step ==
  /\ pc = "lines" => libraryExtends(Result, Result')
  /\ (AtLine /\ hashLevel(lines[idx]) = 0 /\ ~isDelimiter(lines[idx])
         /\ tagOf(lines[idx]) = NoLang) =>
       /\ UNCHANGED <<library, books, sections>>
       /\ Len(parts') = Len(parts)
       /\ \A p \in 1..Len(parts) :
            /\ parts'[p].id = parts[p].id
            /\ \A l \in Languages :
                 (p # currentPart \/ l # currentLang) =>
                   paragraphs(p, l)' = paragraphs(p, l)

C20_AppendOnly == [][C20_Step]_vars

\* a second Section has been added to a Book whose first Section has text
C20_Witness ==
  /\ pc = "done"
  /\ \E b \in attachedBooks :
       /\ Len(books[b].sections) >= 2
       /\ \E i \in 1..Len(sections[books[b].sections[1]].parts) :
            paragraphs(sections[books[b].sections[1]].parts[i], "EN") # <<>>

----------------------------------------------------------------------------
\* the line-by-line machine and the function agree on what a call returns
ParseAgrees == pc = "done" => Result = parseTextToLibrary(text)

----------------------------------------------------------------------------
(* C21 *)

\* texts that are JSON
jsonTexts == {<<"[", "]">>, <<"{", "}">>, <<"n", "u", "l", "l">>, <<"7">>}

\* the stored library is absent, is not JSON, or is JSON but no array
unreadableCache ==
  \/ store.library = Absent
  \/ store.library.kind = "text" /\ store.library.chars \notin jsonTexts
  \/ store.library.kind = "text" /\ store.library.chars \in jsonTexts
       /\ store.library.chars # <<"[", "]">>

\* C21: getLibrary never throws, and when the stored value is absent, is not
\* valid JSON, or is valid JSON that is not an array, it returns the empty
\* Library; a stored array is returned as it is.
C21_UnreadableCacheIsMiss ==
  returned.of = "getLibrary" =>
    /\ ~returned.threw
    /\ unreadableCache => returned.value = <<>>
    /\ \A t \in AppTexts :
         store.library = JSONstringify(parseTextToLibrary(t))
           => returned.value = parseTextToLibrary(t)

\* getLibrary has answered on text that is not JSON, and on JSON that is an
\* object
C21_Witness ==
  /\ returned.of = "getLibrary"
  /\ store.library \in {textItem(<<"{">>), textItem(<<"{", "}">>)}
  /\ returned.value = <<>>

----------------------------------------------------------------------------
(* C22 *)

\* the fetch loadData's sync awaits is pending
loadFetchPending == loading /\ inFlight.from = "load"

\* the fetch has just failed
fetchFailed == returned.of = "fetchGoogleDocContent" /\ returned.threw

\* C22: loadData syncs only when a document id is stored; when the fetch of
\* that sync fails, nothing is displayed or stored by the sync, and loadData
\* then displays the cached Library, puts the cached raw text in the editor
\* and ends loading.
C22_Step ==
  /\ (loading /\ inFlight = NoFetch /\ getGoogleDocId(store) # <<>>) =>
       loadFetchPending'
  /\ (loadFetchPending /\ fetchFailed') =>
       /\ loading' /\ inFlight'.from = "loadData"
       /\ UNCHANGED <<store, appLibrary, editorContent>>
  /\ (loading /\ inFlight.from = "loadData" /\ fetchFailed) =>
       /\ appLibrary' = getLibrary(store).value
       /\ editorContent' = getRawText(store)
       /\ ~loading'
       /\ ~isSyncing'
       /\ inFlight' = NoFetch
       /\ UNCHANGED store

C22_LoadFallsBackToCache == [][C22_Step]_vars

\* loading has ended after a failed fetch with the cached Section displayed
C22_Witness ==
  /\ ~loading
  /\ fetchFailed
  /\ store.docId = textItem(<<"d">>)
  /\ appLibrary # <<>>
  /\ appLibrary = getLibrary(store).value
  /\ editorContent # <<>>
  /\ editorContent = getRawText(store)

----------------------------------------------------------------------------
(* C23 *)

\* C23: after a call of saveLibrary, one in which a write failed included,
\* the three stored values are either all the new ones or all the old ones.
C23_Stated ==
  returned'.of = "saveLibrary" =>
    \/ store' = store
    \/ store' = [library |-> JSONstringify(returned'.data),
                 rawText |-> textItem(returned'.rawText),
                 docId |-> textItem(returned'.docId)]

C23_SaveIsAtomic == [][C23_Stated]_vars

----------------------------------------------------------------------------
(* C28 *)

\* a fetch of syncFromGoogleDoc is pending
fetchPending == inFlight.from \in {"load", "button"}

\* C28: neither the start of a sync nor the failure of its fetch changes the
\* displayed Library, the editor text or any of the three stored values; the
\* failure only ends the syncing state.
C28_Step ==
  /\ (~fetchPending /\ fetchPending') => UNCHANGED <<store, appLibrary, editorContent>>
  /\ (fetchPending /\ ~fetchPending' /\ fetchFailed') =>
       /\ UNCHANGED <<store, appLibrary, editorContent>>
       /\ ~isSyncing'

C28_FailedSyncChangesNothing == [][C28_Step]_vars

\* a sync started from the editor on a newly typed id has failed while a
\* Library was displayed
C28_Witness ==
  /\ fetchFailed
  /\ ~fetchPending
  /\ ~loading
  /\ store.docId = Absent
  /\ googleDocId = <<"d">>
  /\ appLibrary # <<>>

----------------------------------------------------------------------------
(* C29 *)

\* C29: the displayed Library changes only to the Library read from the cache
\* while loading, or to the whole result of parseTextToLibrary on the text
\* that is then in the editor (the saved text, or the fetched document); and
\* the stored Library changes only to the serialisation of a whole parse
\* result.
C29_Step ==
  /\ appLibrary' # appLibrary =>
       \/ loading /\ ~loading' /\ appLibrary' = getLibrary(store).value
       \/ editorContent' \in AppTexts /\ appLibrary' = parsedTexts[editorContent']
  /\ store'.library # store.library =>
       \E t \in AppTexts : store'.library = JSONstringify(parsedTexts[t])

C29_WholeLibraryReplaced == [][C29_Step]_vars

\* a finished sync has put the parse of the fetched document on display and
\* in the storage
C29_Witness ==
  /\ returned.of = "fetchGoogleDocContent"
  /\ ~returned.threw
  /\ ~fetchPending
  /\ ~loading
  /\ appLibrary # <<>>
  /\ appLibrary = parsedTexts[returned.value]
  /\ store.library = JSONstringify(appLibrary)

----------------------------------------------------------------------------
(* C30 *)

\* no load and no sync is in progress
appIdle == ~loading /\ inFlight = NoFetch /\ ~isSyncing

\* C30: whenever no operation is in progress, the stored Library is the parse
\* of the stored raw text and is the displayed Library.
C30_CacheConsistent ==
  appIdle =>
    /\ getRawText(store) \in AppTexts
    /\ getLibrary(store).value = parsedTexts[getRawText(store)]
    /\ getLibrary(store).value = appLibrary

----------------------------------------------------------------------------
(* C24 *)

\* the index, counted from 0, of the first Part of section s of the book in
\* the flattened sequence: the Parts of the Sections before it
RECURSIVE firstPartIndex(_, _)
firstPartIndex(book, s) ==
  IF s = 1 THEN 0
  ELSE firstPartIndex(book, s - 1) + Len(book.sections[s - 1].parts)

\* the layout effect is about to run for a Book with Parts and a target
jumpPending ==
  /\ shown.page # "none"
  /\ shown.effects = "pending"
  /\ readerBook # NoBook
  /\ allParts(readerBook) # <<>>
  /\ targetSectionId # NoTarget

\* C24: when the navigation effect runs with a targetSectionId that is the id
\* of a Section of the book, the current index becomes the index of that
\* Section's first Part, the sum of the part counts of the Sections before it.
C24_Step ==
  jumpPending =>
    \A s \in 1..Len(readerBook.sections) :
      readerBook.sections[s].id = targetSectionId.id =>
        currentPartIndex' = firstPartIndex(readerBook, s)

C24_JumpToSection == [][C24_Step]_vars

----------------------------------------------------------------------------
(* C25 *)

\* the number of Parts of the first s Sections of the book
RECURSIVE partsBefore(_, _)
partsBefore(book, s) ==
  IF s = 0 THEN 0 ELSE partsBefore(book, s - 1) + Len(book.sections[s].parts)

\* C25: the flattened sequence of the displayed Book has one entry per Part
\* and no other entry; entry number (Parts of the Sections before s) + i is
\* Part i of Section s, with that Section's id and title.
C25_FlattenedOnceInOrder ==
  readerBook # NoBook =>
    LET ps == allParts(readerBook)
        n == Len(readerBook.sections)
    IN  /\ Len(ps) = partsBefore(readerBook, n)
        /\ \A s \in 1..n :
             \A i \in 1..Len(readerBook.sections[s].parts) :
               LET e == ps[partsBefore(readerBook, s - 1) + i]
                   p == readerBook.sections[s].parts[i]
               IN  /\ e.id = p.id
                   /\ e.type = p.type
                   /\ e.content = p.content
                   /\ e.sectionId = readerBook.sections[s].id
                   /\ e.sectionTitle = readerBook.sections[s].title

\* a Book of two Sections, the first with several Parts, is displayed
C25_Witness ==
  /\ readerBook # NoBook
  /\ shown.page = "part"
  /\ Len(readerBook.sections) = 2
  /\ Len(readerBook.sections[1].parts) = 3
  /\ Len(allParts(readerBook)) = 4

----------------------------------------------------------------------------
(* C27 *)

\* C27: whenever Reader has rendered a Book with at least one Part, it shows
\* the Part at an index within the bounds of the Book's flattened sequence,
\* not the landing page and not an empty presentation.
C27_DisplayIndexInBounds ==
  (shown.page # "none" /\ readerBook # NoBook /\ allParts(readerBook) # <<>>) =>
    /\ shown.page = "part"
    /\ shown.index \in 0..(Len(allParts(readerBook)) - 1)
    /\ shown.part = allParts(readerBook)[shown.index + 1]

----------------------------------------------------------------------------
(* C26 *)

\* a Section heading is about to be read and no Book is current
orphanHeading == AtLine /\ kind = "section" /\ currentBook = 0

\* C26 as stated: after a Section heading read with no current Book, the
\* current Section and the current Part are none.
C26_Stated == orphanHeading => (currentSection' = 0 /\ currentPart' = 0)

C26_OrphanNotRetained == [][C26_Stated]_vars

\* Section s is in no Book of bks
detachedIn(bks, s) ==
  \A b \in 1..Len(bks) :
    \A i \in 1..Len(bks[b].sections) : bks[b].sections[i] # s

\* C26, amended: a Section heading read with no current Book leaves the
\* Library as it was and makes the new Section, attached to no Book, the
\* current Section, with a new Part of it as current Part; a Section in no
\* Book is never put in one later; and while such a Section is current no
\* line other than a Category or Book heading changes the Library.
C26_Step ==
  /\ orphanHeading =>
       /\ Result' = Result
       /\ currentSection' = Len(sections) + 1
       /\ Len(sections') = Len(sections) + 1
       /\ detachedIn(books', currentSection')
       /\ currentPart' = Len(parts) + 1
       /\ sections'[currentSection'].parts = <<currentPart'>>
  /\ \A s \in 1..Len(sections) : detachedIn(books, s) => detachedIn(books', s)
  /\ (AtLine /\ currentSection # 0 /\ detachedIn(books, currentSection)
        /\ kind \notin {"category", "book"}) => Result' = Result

C26_OrphanCollectsOutsideLibrary == [][C26_Step]_vars

\* a paragraph has been collected into a Part of a Section that is in no Book
C26_Witness ==
  /\ currentSection # 0
  /\ detachedIn(books, currentSection)
  /\ currentPart # 0
  /\ DOMAIN parts[currentPart].content # {}
  /\ \E i \in 1..Len(sections[currentSection].parts) :
       sections[currentSection].parts[i] = currentPart

----------------------------------------------------------------------------
(* C31 *)

\* C31: when every pending fetch settles, a syncing state always ends, and
\* loading ends.
C31_BusyStatesEnd == (isSyncing ~> ~isSyncing) /\ <>(~loading)

\* a sync started from the editor has ended by a failed fetch after loading
\* had ended without a stored id
C31_Witness ==
  /\ ~loading
  /\ ~isSyncing
  /\ inFlight = NoFetch
  /\ fetchFailed
  /\ store.docId = Absent
  /\ googleDocId = <<"e">>

----------------------------------------------------------------------------
(* C32 *)

\* the index, counted from 0, of the title slide of section s of the book:
\* one title slide and the content slides of every Section before it
RECURSIVE firstSlideIndex(_, _)
firstSlideIndex(book, s) ==
  IF s = 1 THEN 0
  ELSE firstSlideIndex(book, s - 1) + 1 + Len(book.sections[s - 1].parts)

\* the effect is about to run with a target
targetPending ==
  /\ shown.page # "none"
  /\ shown.effects = "pending"
  /\ targetSectionId # NoTarget

\* the positions of the Sections of the given book that have the target's id
targetSections ==
  IF readerBook = NoBook \/ targetSectionId = NoTarget THEN {}
  ELSE {s \in 1..Len(readerBook.sections) :
          readerBook.sections[s].id = targetSectionId.id}

\* the Reader's step on a pending target, for a book whose Section ids answer
\* to ok: a target naming a Section of the book moves the index to that
\* Section's first slide and is cleared; any other target stays set and the
\* index stays, or goes to 0 because the book changed
C32_StepFor(ok) ==
  (targetPending /\ ok) =>
    IF targetSections # {}
    THEN /\ targetSectionId' = NoTarget
         /\ \A s \in targetSections :
              currentPartIndex' = firstSlideIndex(readerBook, s)
    ELSE /\ targetSectionId' = targetSectionId
         /\ \/ currentPartIndex' = currentPartIndex
            \/ /\ lastBookIdRef # [id |-> readerBook.id]
               /\ currentPartIndex' = 0

\* C32: a target naming a Section of the given book is eventually consumed,
\* with the index on that Section's first slide; a target naming no Section
\* of the given book stays set and does not move the index.
C32_TargetConsumedWhenReached ==
  /\ [][C32_StepFor(TRUE)]_vars
  /\ (targetPending /\ targetSections # {}) ~> (targetSectionId = NoTarget)

----------------------------------------------------------------------------
(* C33 *)

\* the last element of a non-empty sequence of references, 0 for an empty one
lastRef(refs) == IF refs = <<>> THEN 0 ELSE refs[Len(refs)]

\* C33: between lines and at the end of a parse, a current Part comes with a
\* current Section and is the last of that Section's Parts; a current Section
\* under a current Book is the last of the Book's Sections; a current Book
\* under a current Category is the last child of the Category; and a current
\* Category is the last element of the Library.
C33_CursorInvariant ==
  pc \in {"lines", "done"} =>
    /\ currentPart # 0 =>
         /\ currentSection # 0
         /\ lastRef(sections[currentSection].parts) = currentPart
    /\ (currentSection # 0 /\ currentBook # 0) =>
         lastRef(books[currentBook].sections) = currentSection
    /\ (currentBook # 0 /\ currentCat # 0) =>
         lastRef(library[currentCat].children) = currentBook
    /\ currentCat # 0 => currentCat = Len(library)

\* all four cursors are set and the current Section has more than one Part
C33_Witness ==
  /\ pc \in {"lines", "done"}
  /\ currentCat # 0
  /\ currentBook # 0
  /\ currentSection # 0
  /\ currentPart # 0
  /\ Len(sections[currentSection].parts) > 1

----------------------------------------------------------------------------
(* C34 *)

\* C34, step by step: a Part that becomes the current Part is empty, is made
\* by a ### or --- line, and comes with no active Language; a Part changes
\* only while it is the current Part, by one paragraph, the trimmed line,
\* appended under the active Language; and a Language becomes active only by
\* a tag line for it.
C34_Step ==
  /\ (currentPart' # currentPart /\ currentPart' # 0) =>
       /\ kind \in {"section", "delimiter"}
       /\ currentLang' = NoLang
       /\ currentPart' = Len(parts) + 1
       /\ DOMAIN parts'[currentPart'].content = {}
  /\ \A p \in 1..Len(parts) :
       parts'[p] # parts[p] =>
         /\ p = currentPart
         /\ currentPart' = currentPart
         /\ currentLang # NoLang
         /\ currentLang' = currentLang
         /\ \A l \in Languages \ {currentLang} :
              paragraphs(p, l)' = paragraphs(p, l)
         /\ \/ paragraphs(p, currentLang)' = paragraphs(p, currentLang)
            \/ paragraphs(p, currentLang)' =
                 Append(paragraphs(p, currentLang), trim(lines[idx]))
  /\ (currentLang' # currentLang /\ currentLang' # NoLang) =>
       tagOf(lines[idx]) = currentLang'

\* C34, between lines: while a Part is current, an active Language is the
\* Language of a tag line read after the last heading or delimiter, the line
\* that made the Part current.
C34_ActiveLanguageTagged ==
  (pc \in {"lines", "done"} /\ currentPart # 0 /\ currentLang # NoLang) =>
    LET src == srcLines
        n == consumed
        tags == {i \in 1..n : tagOf(src[i]) # NoLang}
        breaks == {i \in 1..n : hashLevel(src[i]) > 0 \/ isDelimiter(src[i])}
    IN  /\ tags # {}
        /\ \E t \in tags :
             /\ \A u \in tags : u <= t
             /\ tagOf(src[t]) = currentLang
             /\ \A b \in breaks : b < t

C34_LanguageNotCarriedOver == [][C34_Step]_vars /\ []C34_ActiveLanguageTagged

\* after a paragraph under EN, a --- line made a new Part current and the
\* plain line that followed was not stored
C34_Witness ==
  /\ pc = "done"
  /\ Len(srcLines) > 2
  /\ isDelimiter(srcLines[Len(srcLines) - 1])
  /\ isPlain(srcLines[Len(srcLines)])
  /\ currentPart > 1
  /\ currentLang = NoLang
  /\ DOMAIN parts[currentPart].content = {}
  /\ paragraphs(currentPart - 1, "EN") # <<>>

----------------------------------------------------------------------------
(* C35 *)

\* C35: no paragraph of any Part starts with #, is ---, or is one of the
\* five language tags in any letter case.
C35_NoMarkupInContent ==
  \A p \in 1..Len(parts) :
    \A l \in DOMAIN parts[p].content :
      \A i \in 1..Len(parts[p].content[l]) :
        LET par == parts[p].content[l][i]
        IN  /\ (par # <<>> => par[1] # "#")
            /\ par # <<"-", "-", "-">>
            /\ tagOf(par) = NoLang

\* a Part of the returned Library holds a paragraph under EN and, after a
\* lower-case tag, one under AR
C35_Witness ==
  /\ pc = "done"
  /\ \E s \in attachedSections : \E i \in 1..Len(sections[s].parts) :
       /\ paragraphs(sections[s].parts[i], "EN") # <<>>
       /\ paragraphs(sections[s].parts[i], "AR") = << <<"b">> >>

----------------------------------------------------------------------------
(* C36 *)

\* spellings of the English tag, and lines that only begin like it
englishTags ==
  {<<"[", "e", "n", "]">>, <<" ", "[", "E", "n", "]", " ">>, <<"[", "E", "N", "]">>}

almostTags == {<<"[", "E", "N", "]", " ", "a">>, <<"[", "E", "N", "G", "]">>}

\* the content rule on the line about to be read: its trimmed text is
\* appended to the current Part under the active Language when both are set,
\* and nothing changes otherwise
contentRule ==
  /\ UNCHANGED <<library, books, sections, currentCat, currentBook,
                 currentSection, currentPart, currentLang>>
  /\ IF currentLang # NoLang /\ currentPart # 0
     THEN /\ paragraphs(currentPart, currentLang)' =
               Append(paragraphs(currentPart, currentLang), trim(lines[idx]))
          /\ \A p \in 1..Len(parts) : \A l \in Languages :
               (p # currentPart \/ l # currentLang) =>
                 paragraphs(p, l)' = paragraphs(p, l)
          /\ Len(parts') = Len(parts)
     ELSE parts' = parts

\* C36: a line whose trimmed text equals a tag in any letter case selects
\* that tag's Language and stores nothing; [en], [En] between spaces and [EN]
\* select English; a plain line, such as a tag followed by text or [ENG], is
\* no tag and goes through the content rule.
C36_Step ==
  AtLine =>
    /\ tagOf(lines[idx]) # NoLang =>
         /\ currentLang' = tagOf(lines[idx])
         /\ UNCHANGED <<library, books, sections, parts>>
    /\ lines[idx] \in englishTags => currentLang' = "EN"
    /\ lines[idx] \in almostTags => tagOf(lines[idx]) = NoLang
    /\ isPlain(lines[idx]) => contentRule

C36_TagsAreWholeLines == [][C36_Step]_vars

\* after [En] between spaces, a tag followed by text and [ENG] were stored as
\* two English paragraphs
C36_Witness ==
  /\ pc = "done"
  /\ currentPart # 0
  /\ currentLang = "EN"
  /\ paragraphs(currentPart, "EN") =
       << <<"[", "E", "N", "]", " ", "a">>, <<"[", "E", "N", "G", "]">> >>
  /\ \E i \in 1..Len(srcLines) : srcLines[i] = <<" ", "[", "E", "n", "]", " ">>

----------------------------------------------------------------------------
(* C37 *)

\* the document has just been fetched
fetched == returned.of = "fetchGoogleDocContent" /\ ~returned.threw

\* C37: when the fetch of loadData's sync succeeds, the parse of the fetched
\* text is displayed, the fetched text is in the editor, and the stored
\* Library and raw text are that parse and that text; loadData then ends
\* loading and leaves them so.
C37_Step ==
  /\ (loadFetchPending /\ fetched' /\ ~loadFetchPending') =>
       /\ returned'.value \in AppTexts
       /\ appLibrary' = parsedTexts[returned'.value]
       /\ editorContent' = returned'.value
       /\ getLibrary(store').value = parsedTexts[returned'.value]
       /\ getRawText(store') = returned'.value
  /\ (loading /\ inFlight.from = "loadData" /\ fetched) =>
       /\ UNCHANGED <<store, appLibrary, editorContent>>
       /\ ~loading'

C37_RemoteTextWins == [][C37_Step]_vars

----------------------------------------------------------------------------
(* C38 *)

\* the Languages of a list
enabled(s) == {s[i] : i \in 1..Len(s)}

\* C38, between clicks: settings.languages is a non-empty list of Languages
\* without repetition.
C38_NonEmptyNoDuplicate ==
  /\ settings.languages # <<>>
  /\ enabled(settings.languages) \subseteq Languages
  /\ Cardinality(enabled(settings.languages)) = Len(settings.languages)

\* C38, click by click: the settings change only by removing one enabled
\* Language that is not the only one, the others keeping their order, or by
\* appending one that was not enabled.
C38_Step ==
  settings' # settings =>
    /\ settings' = [settings EXCEPT !.languages = settings'.languages]
    /\ \E lang \in Languages :
         IF lang \in enabled(settings.languages)
         THEN /\ Len(settings.languages) > 1
              /\ settings'.languages =
                   SelectSeq(settings.languages, LAMBDA l : l # lang)
         ELSE settings'.languages = Append(settings.languages, lang)

C38_LanguagesToggle == [][C38_Step]_vars /\ []C38_NonEmptyNoDuplicate

\* all Languages but AR were switched off and EN was switched on again
C38_Witness == settings.languages = <<"AR", "EN">>

----------------------------------------------------------------------------
(* C39 *)

\* C39: Part number k of a Section has the identifier part-, the Section's
\* identifier, -, k in decimal, whether a Section heading or a --- line made
\* it; and every Part has type prayer.
C39_PartIdsFollowPosition ==
  /\ \A s \in 1..Len(sections) :
       \A k \in 1..Len(sections[s].parts) :
         parts[sections[s].parts[k]].id =
           <<"p", "a", "r", "t", "-">> \o sections[s].id \o <<"-">> \o numStr(k)
  /\ \A p \in 1..Len(parts) : parts[p].type = "prayer"

\* the revision with partCount returned a Section of three Parts after a
\* Section of one
C39_Witness ==
  /\ variant = "counted"
  /\ pc = "done"
  /\ \E s \in attachedSections :
       /\ s > 1
       /\ Len(sections[s].parts) = 3
       /\ parts[sections[s].parts[3]].id =
            <<"p", "a", "r", "t", "-">> \o sections[s].id \o <<"-", "3">>

\* C40: slugify is idempotent: for every title t, slugify applied to
\* slugify(t) gives slugify(t) again.
C40_SlugifyIdempotent ==
  /\ Len(slugs) >= 1 => slugs[1] = slugify(slugText)
  /\ Len(slugs) = 2 => slugs[2] = slugs[1]

\* a title that slugify changed (case, a separator turned into a hyphen,
\* a trimmed end) has been through it twice
C40_Witness ==
  /\ Len(slugs) = 2
  /\ slugs[1] = <<"a", "-", "b">>
  /\ Len(slugText) = 4
  /\ slugText[1] \in SepChars
  /\ slugText[3] = "_"

====
